---- MODULE Spec2Model ----
(***************************************************************************)
(* Model of locust-love-django:                                            *)
(*   - http_header_profiling_middleware/middleware.py                      *)
(*       CustomDebugToolbarHeaderMiddleware.process_response               *)
(*   - django_code_smells/examples_app/query_examples.py and views.py      *)
(*       the cached / uncached / raw-SQL author statistics queries         *)
(*                                                                         *)
(*   - django_code_smells/examples_app/utils.py, complex_queries.py        *)
(*   - locust_tests/locustfile.py, locust/locustfile.py: parse_headers     *)
(*                                                                         *)
(* Specifications:                                                         *)
(*   Spec            one request passing through the profiling middleware  *)
(*   SpecGrouping    the grouping loop of the middleware, step by step     *)
(*   SpecConcurrent  two requests in the middleware at the same time       *)
(*   SpecLocust      the load test reading the headers of a response       *)
(*   SpecCache       the query cache, the database, the caching endpoint   *)
(*   SpecView        requests to the caching endpoint                      *)
(*   SpecQuery       the example queries as functions of the tables        *)
(*   SpecPublisher   publishers of books and get_book_publisher_name       *)
(*   SpecReport      the project report and the department analysis        *)
(*   SpecTasks       the task summary of a project                         *)
(***************************************************************************)
EXTENDS Integers, Sequences, FiniteSets, TLC

VARIABLES
    \* ---- middleware ----
    pc,                 \* "collect" while the view runs, "done" after process_response
    has_debug_toolbar,  \* hasattr(request, 'debug_toolbar')
    loop_body,          \* number of distinct statements the view issues per loop pass
    passes,             \* loop passes recorded so far
    extras,             \* single queries recorded so far
    sql_queries,        \* stats['sql']['queries'], in execution order
    response,           \* the response object handed to process_response
    returned,           \* what process_response returned ("none" before the call)
    log,                \* records emitted through logger.info, in order
    next_uuid,          \* the next value uuid.uuid4() yields (fresh every call)
    \* ---- database, cache and the example endpoints ----
    authors,            \* Author table: id -> name
    books,              \* Book table: id -> [author, publication_year]
    next_author_id,     \* auto-increment primary key of Author
    next_book_id,       \* auto-increment primary key of Book
    cache,              \* django.core.cache: key -> [value, expires]
    now,                \* time.time(), in half seconds
    last,               \* what the last call or request returned
    publishers,         \* Publisher table: id -> name
    next_publisher_id,  \* auto-increment primary key of Publisher
    book_publisher,     \* Book.publisher: book id -> publisher id, where not NULL
    org,                \* the tables of complex_models.py
    requests            \* requests served at the same time: id -> the locals
                        \* of its process_response call

mwvars == <<pc, has_debug_toolbar, loop_body, passes, extras, sql_queries,
            response, returned, log, next_uuid>>

dbvars == <<authors, books, next_author_id, next_book_id>>

pubvars == <<publishers, next_publisher_id, book_publisher>>

appvars == <<dbvars, cache, now, last, pubvars, org, requests>>

vars == <<mwvars, appvars>>

(***************************************************************************)
(* Bounds                                                                  *)
(***************************************************************************)
MaxBody   == 11   \* statements per loop pass (more than SQL_NPLUS1_LIMIT groups)
MaxPasses == 2    \* loop passes per request
MaxExtra  == 1    \* single queries per request
MaxTime   == 2    \* query times are 1..MaxTime (milliseconds)
MaxRows   == 2    \* Author and Book rows ever created
MaxClock  == 4    \* the clock stops after this many half seconds
MaxQueryAuthors == 2   \* Author rows of a database the queries are compared on
MaxQueryBooks   == 2   \* Book rows of a database the queries are compared on
MaxPublishers   == 2   \* Publisher rows ever created
MaxEmployees    == 2   \* Employee rows
MaxProjects     == 1   \* Project rows of a database the reports are built on
MaxAssignments  == 1   \* ProjectAssignment rows
MaxReportTasks  == 1   \* Task rows of a database the reports are built on
MaxTasks        == 2   \* Task rows of a database the task summary is built on

(***************************************************************************)
(* Program constants, middleware.py                                        *)
(***************************************************************************)
SQL_NPLUS1_LIMIT == 10
SQL_SLOW_LIMIT   == 5
HEADER_PREFIX    == "DJ_TB_SQL"

Times == 1..MaxTime

Min(a, b) == IF a <= b THEN a ELSE b

\* Python's seq[:n]
Take(s, n) == SubSeq(s, 1, Min(n, Len(s)))

(***************************************************************************)
(* Query records as the toolbar reports them.  A stack trace is a list of  *)
(* frames; the frame of the n-th executed query is n.                      *)
(***************************************************************************)
Query(sql, time, n) ==
    [sql |-> sql, time |-> time, stacktrace |-> <<n>>, is_select |-> TRUE]

\* f"{HEADER_PREFIX}_{kind}_{i+1}_UUID" for the 0-based enumerate index i
HeaderName(kind, i) ==
    [prefix |-> HEADER_PREFIX, kind |-> kind, rank |-> i + 1, suffix |-> "UUID"]

\* headers the response carries before the middleware sees it
ContentType == [prefix |-> "Content-Type", kind |-> "", rank |-> 0, suffix |-> ""]

(***************************************************************************)
(* Lines 24-38: group the queries by SQL text.  repeated_queries is a dict *)
(* (insertion ordered): a sequence of groups in first-occurrence order.    *)
(* The loop's accumulations are written in closed form: the count is the   *)
(* number of records, total_time their sum and stacktrace their traces     *)
(* concatenated, all in execution order.                                   *)
(***************************************************************************)
\* sum of a sequence of numbers
RECURSIVE SumSeq(_)
SumSeq(s) ==
    IF Len(s) = 0 THEN 0
    ELSE IF Len(s) = 1 THEN s[1]
    ELSE LET h == Len(s) \div 2
         IN SumSeq(SubSeq(s, 1, h)) + SumSeq(SubSeq(s, h + 1, Len(s)))

\* concatenation of a sequence of lists (list.extend, one after the other)
RECURSIVE Flatten(_)
Flatten(s) ==
    IF Len(s) = 0 THEN <<>>
    ELSE IF Len(s) = 1 THEN s[1]
    ELSE LET h == Len(s) \div 2
         IN Flatten(SubSeq(s, 1, h)) \o Flatten(SubSeq(s, h + 1, Len(s)))

\* the records of queries with the given SQL text, in execution order
WithSql(queries, sql) == SelectSeq(queries, LAMBDA q : q.sql = sql)

\* the queries at which an SQL text occurs for the first time (line 28 false),
\* in execution order
FirstQueries(queries) ==
    LET indexed == [n \in 1..Len(queries) |-> [n |-> n, query |-> queries[n]]]
        firsts  == SelectSeq(indexed, LAMBDA e :
                       \A m \in 1..(e.n - 1) : queries[m].sql # e.query.sql)
    IN [k \in 1..Len(firsts) |-> firsts[k].query]

\* lines 29-38 for one SQL text whose first record is query
GroupOf(queries, query) ==
    LET same == WithSql(queries, query.sql) IN
    [sql        |-> query.sql,
     count      |-> Len(same),
     total_time |-> SumSeq([j \in 1..Len(same) |-> same[j].time]),
     stacktrace |-> Flatten([j \in 1..Len(same) |-> same[j].stacktrace]),
     is_select  |-> query.is_select]

RepeatedQueries(queries) ==
    LET firsts == FirstQueries(queries)
    IN [k \in 1..Len(firsts) |-> GroupOf(queries, firsts[k])]

(***************************************************************************)
(* Line 36 stores the first query's own stacktrace list in the group and   *)
(* line 31 extends that list in place: after the loop the first query of   *)
(* every group carries the stack traces of the whole group.                *)
(***************************************************************************)
QueriesAfterGrouping(queries) ==
    [n \in 1..Len(queries) |->
        IF \A m \in 1..(n - 1) : queries[m].sql # queries[n].sql
        THEN [queries[n] EXCEPT
                 !.stacktrace = GroupOf(queries, queries[n]).stacktrace]
        ELSE queries[n]]

\* Line 41 with the comparison off by one (count >= 1)
NPlusOneQueriesOffByOne(groups) ==
    SelectSeq(groups, LAMBDA g : g.count >= 1)

\* Line 41: keep the groups seen more than once
NPlusOneQueries(groups) ==
    SelectSeq(groups, LAMBDA g : g.count > 1)

(***************************************************************************)
(* sorted(..., key=..., reverse=True): stable, descending by key.  The     *)
(* argument is a sequence of [key, item] pairs.                            *)
(***************************************************************************)
SortedReverse(pairs) ==
    LET n == Len(pairs)
        \* the place of pairs[j]: after every larger key and after the equal
        \* keys that come before it
        place == [j \in 1..n |->
                    1 + Cardinality({i \in 1..n : pairs[i].key > pairs[j].key})
                      + Cardinality({i \in 1..(j - 1) : pairs[i].key = pairs[j].key})]
    IN [p \in 1..n |-> pairs[CHOOSE j \in 1..n : place[j] = p]]

Items(pairs) == [j \in 1..Len(pairs) |-> pairs[j].item]

\* Lines 44-46 with the slice taken before the sort
SortedNPlusOneQueriesCutFirst(n_plus_one_queries) ==
    LET cut == Take(n_plus_one_queries, SQL_NPLUS1_LIMIT) IN
    Items(SortedReverse(
        [j \in 1..Len(cut) |-> [key |-> cut[j].count, item |-> cut[j]]]))

\* Lines 44-46
SortedNPlusOneQueries(n_plus_one_queries) ==
    Take(Items(SortedReverse(
             [j \in 1..Len(n_plus_one_queries) |->
                 [key |-> n_plus_one_queries[j].count,
                  item |-> n_plus_one_queries[j]]])),
         SQL_NPLUS1_LIMIT)

\* Lines 49-50 sliced with the other limit
SlowQueriesWrongLimit(queries) ==
    Take(Items(SortedReverse(
             [j \in 1..Len(queries) |->
                 [key |-> queries[j].time, item |-> queries[j]]])),
         SQL_NPLUS1_LIMIT)

\* Lines 49-50
SlowQueries(queries) ==
    Take(Items(SortedReverse(
             [j \in 1..Len(queries) |->
                 [key |-> queries[j].time, item |-> queries[j]]])),
         SQL_SLOW_LIMIT)

(***************************************************************************)
(* Lines 53-59 and 61-67: one header and one log record per entry.         *)
(* uuid.uuid4() is modelled as a fresh value: first + i for the i-th call. *)
(***************************************************************************)
NPlusOneLog(i, group, uuid) ==
    [kind |-> "N+1 Query", rank |-> i + 1, uuid |-> uuid, sql |-> group.sql,
     count |-> group.count, time |-> group.total_time,
     stacktrace |-> group.stacktrace]

\* Line 67 logging a uuid of its own instead of the header's
SlowLogOwnUuid(i, query, uuid) ==
    [kind |-> "Slow Query", rank |-> i + 1, uuid |-> uuid + SQL_SLOW_LIMIT,
     sql |-> query.sql, count |-> 1, time |-> query.time,
     stacktrace |-> query.stacktrace]

SlowLog(i, query, uuid) ==
    [kind |-> "Slow Query", rank |-> i + 1, uuid |-> uuid, sql |-> query.sql,
     count |-> 1, time |-> query.time, stacktrace |-> query.stacktrace]

NPlusOneHeaders(sorted, first) ==
    [h \in {HeaderName("NPLUS1", i) : i \in 0..(Len(sorted) - 1)} |->
        first + (h.rank - 1)]

SlowHeaders(slow, first) ==
    [h \in {HeaderName("SLOW", i) : i \in 0..(Len(slow) - 1)} |->
        first + (h.rank - 1)]

NPlusOneLogs(sorted, first) ==
    [j \in 1..Len(sorted) |-> NPlusOneLog(j - 1, sorted[j], first + (j - 1))]

SlowLogs(slow, first) ==
    [j \in 1..Len(slow) |-> SlowLog(j - 1, slow[j], first + (j - 1))]

\* response[header_name] = value, for every header of new
SetHeaders(headers, new) ==
    [h \in DOMAIN headers \cup DOMAIN new |->
        IF h \in DOMAIN new THEN new[h] ELSE headers[h]]

\* the loop bodies a view may have: none, one statement, or enough statements
\* to reach and to exceed SQL_NPLUS1_LIMIT repeated groups
LoopBodies == {0, 1, MaxBody - 1, MaxBody}

\* the response the view produced
InitialResponse ==
    [id |-> 1, status |-> 200, content |-> "body",
     headers |-> (ContentType :> "text/html")]

(***************************************************************************)
(* Middleware: initial state and actions                                   *)
(***************************************************************************)
MwInit ==
    /\ pc = "collect"
    /\ has_debug_toolbar \in BOOLEAN
    /\ loop_body \in LoopBodies
    /\ passes = 0
    /\ extras = 0
    /\ sql_queries = <<>>
    /\ response = InitialResponse
    /\ returned = "none"
    /\ log = <<>>
    /\ next_uuid = 1

\* the time statement j of the loop body takes: the statements differ, every
\* pass repeats them
LoopTime(j) == 1 + (j % MaxTime)

\* the view runs one pass of its loop: every statement of the body once
RecordLoopPass ==
    /\ pc = "collect"
    /\ loop_body > 0
    /\ passes < MaxPasses
    /\ passes' = passes + 1
    /\ sql_queries' = sql_queries \o
           [j \in 1..loop_body |-> Query(j, LoopTime(j), Len(sql_queries) + j)]
    /\ UNCHANGED <<pc, has_debug_toolbar, loop_body, extras, response,
                   returned, log, next_uuid, appvars>>

\* the view runs one single statement
RecordQuery(sql, time) ==
    /\ pc = "collect"
    /\ extras < MaxExtra
    /\ extras' = extras + 1
    /\ sql_queries' = Append(sql_queries, Query(sql, time, Len(sql_queries) + 1))
    /\ UNCHANGED <<pc, has_debug_toolbar, loop_body, passes, response,
                   returned, log, next_uuid, appvars>>

\* the statements a single query may be: the last statement of the loop body
\* or one the loop never issues
ExtraSqls == {s \in {loop_body, loop_body + 1} : s >= 1}

\* lines 19-67: the branch taken when the request has a debug_toolbar
WithToolbar(queries, resp, uuid) ==
    LET groups   == RepeatedQueries(queries)
        queries2 == QueriesAfterGrouping(queries)
        sorted   == SortedNPlusOneQueries(NPlusOneQueries(groups))
        slow     == SlowQueries(queries2)
        first2   == uuid + Len(sorted)
    IN [sql_queries |-> queries2,
        response |-> [resp EXCEPT !.headers =
            SetHeaders(SetHeaders(@, NPlusOneHeaders(sorted, uuid)),
                       SlowHeaders(slow, first2))],
        log |-> NPlusOneLogs(sorted, uuid) \o SlowLogs(slow, first2),
        next_uuid |-> first2 + Len(slow)]

\* lines 17-69 without the hasattr test of line 18
ProcessResponseUnguarded(has_toolbar, queries, resp, uuid) ==
    WithToolbar(queries, resp, uuid)

\* lines 17-69: what one call changes
ProcessResponseResult(has_toolbar, queries, resp, uuid) ==
    IF has_toolbar
    THEN WithToolbar(queries, resp, uuid)
    ELSE [sql_queries |-> queries, response |-> resp, log |-> <<>>,
          next_uuid |-> uuid]

\* process_response, lines 17-69
ProcessResponse ==
    /\ pc = "collect"
    /\ pc' = "done"
    /\ LET r == ProcessResponseResult(has_debug_toolbar, sql_queries,
                                      response, next_uuid)
       IN /\ sql_queries' = r.sql_queries
          /\ response' = r.response
          /\ log' = log \o r.log
          /\ next_uuid' = r.next_uuid
          /\ returned' = r.response
    /\ UNCHANGED <<has_debug_toolbar, loop_body, passes, extras, appvars>>

MwNext ==
    \/ RecordLoopPass
    \/ \E s \in ExtraSqls, t \in Times : RecordQuery(s, t)
    \/ ProcessResponse

(***************************************************************************)
(* The grouping loop of lines 24-38, one iteration per step.  last holds   *)
(* the loop's variables: the list as it was read (queries), the number of  *)
(* records handled (i) and the dict built so far (repeated_queries, its    *)
(* items in insertion order).  The group's stacktrace is the list object   *)
(* of the first record with the SQL text, so extending it changes that     *)
(* record of sql_queries as well.                                          *)
(***************************************************************************)
\* the position of sql among the keys of the dict, 0 if it is no key
KeyIndex(repeated_queries, sql) ==
    IF \E k \in 1..Len(repeated_queries) : repeated_queries[k].sql = sql
    THEN CHOOSE k \in 1..Len(repeated_queries) : repeated_queries[k].sql = sql
    ELSE 0

\* lines 29-31 adding the time to the count and the count to the time
AddToGroupSwapped(group, query) ==
    [group EXCEPT !.count = @ + query.time,
                  !.total_time = @ + 1,
                  !.stacktrace = @ \o query.stacktrace]

\* lines 29-31: the SQL text is a key already
AddToGroup(group, query) ==
    [group EXCEPT !.count = @ + 1,
                  !.total_time = @ + query.time,
                  !.stacktrace = @ \o query.stacktrace]

\* lines 33-38: the SQL text is seen for the first time
NewGroup(query) ==
    [sql |-> query.sql, count |-> 1, total_time |-> query.time,
     stacktrace |-> query.stacktrace, is_select |-> query.is_select]

\* lines 18-24: the request has a debug_toolbar, the loop is about to start
StartGrouping ==
    /\ pc = "collect"
    /\ has_debug_toolbar
    /\ pc' = "grouping"
    /\ last' = [op |-> "grouping", queries |-> sql_queries, i |-> 0,
                repeated_queries |-> <<>>]
    /\ UNCHANGED <<has_debug_toolbar, loop_body, passes, extras, sql_queries,
                   response, returned, log, next_uuid, dbvars, cache, now,
                   pubvars, org, requests>>

\* lines 25-38: one iteration of "for query in sql_queries"
GroupStep ==
    /\ pc = "grouping"
    /\ last.i < Len(sql_queries)
    /\ LET query == sql_queries[last.i + 1]
           k == KeyIndex(last.repeated_queries, query.sql)
       IN IF k # 0
          THEN LET group == AddToGroup(last.repeated_queries[k], query)
                   first == CHOOSE n \in 1..Len(sql_queries) :
                               /\ sql_queries[n].sql = query.sql
                               /\ \A m \in 1..(n - 1) :
                                     sql_queries[m].sql # query.sql
               IN /\ last' = [last EXCEPT !.i = @ + 1,
                                          !.repeated_queries[k] = group]
                  /\ sql_queries' = [sql_queries EXCEPT
                                        ![first].stacktrace = group.stacktrace]
          ELSE /\ last' = [last EXCEPT
                              !.i = @ + 1,
                              !.repeated_queries = Append(@, NewGroup(query))]
               /\ UNCHANGED sql_queries
    /\ UNCHANGED <<pc, has_debug_toolbar, loop_body, passes, extras, response,
                   returned, log, next_uuid, dbvars, cache, now, pubvars, org, requests>>

GroupingNext ==
    \/ RecordLoopPass
    \/ \E s \in ExtraSqls, t \in Times : RecordQuery(s, t)
    \/ StartGrouping
    \/ GroupStep

(***************************************************************************)
(* The load test, locustfile.py: parse_headers reads the headers of a      *)
(* response with status 200.  A header name is kept in the parts it is     *)
(* made of, so that startswith and split("_") are computed on the parts.   *)
(***************************************************************************)
\* key.startswith(f"DJ_TB_SQL_{kind}")
StartsWith(key, kind) == key.prefix = HEADER_PREFIX /\ key.kind = kind

\* key.split("_")[-1]: the text after the last underscore
QueryIndex(key) == IF key.suffix # "" THEN key.suffix ELSE key.prefix

\* "STACK" in query_index, for the texts that can follow the last underscore
ContainsStack(query_index) == query_index = "STACK"

\* query_index[:-6]: nothing is left of a text of five characters
WithoutLastSix(query_index) == ""

\* headers.items(): the headers in the order the server wrote them, which is
\* the order they were set in (Content-Type, N+1 by rank, slow by rank)
HeaderItems(headers) ==
    LET place(h) == IF h.kind = "" THEN 0
                    ELSE IF h.kind = "NPLUS1" THEN h.rank
                    ELSE SQL_NPLUS1_LIMIT + h.rank
        before(h) == Cardinality({g \in DOMAIN headers : place(g) < place(h)})
    IN [p \in 1..Cardinality(DOMAIN headers) |->
           LET key == CHOOSE h \in DOMAIN headers : before(h) = p - 1
           IN [key |-> key, value |-> headers[key]]]

\* the position of idx among the keys of a dict, 0 if it is no key
IndexOfKey(dict, idx) ==
    IF \E k \in 1..Len(dict) : dict[k].idx = idx
    THEN CHOOSE k \in 1..Len(dict) : dict[k].idx = idx
    ELSE 0

\* dict[idx] = {"query_info": value}
SetQueryInfo(dict, idx, value) ==
    LET k == IndexOfKey(dict, idx)
        entry == [idx |-> idx, query |-> ("query_info" :> value)]
    IN IF k # 0 THEN [dict EXCEPT ![k] = entry] ELSE Append(dict, entry)

\* dict.setdefault(idx, {})["stack"] = value
SetStack(dict, idx, value) ==
    LET k == IndexOfKey(dict, idx)
    IN IF k # 0
       THEN [dict EXCEPT ![k].query =
                [f \in DOMAIN @ \cup {"stack"} |->
                    IF f = "stack" THEN value ELSE @[f]]]
       ELSE Append(dict, [idx |-> idx, query |-> ("stack" :> value)])

\* lines 71-76 (N+1) and 79-84 (slow): what one header does to the dict
ParseHeader(dict, kind, item) ==
    IF StartsWith(item.key, kind)
    THEN LET query_index == QueryIndex(item.key)
         IN IF ContainsStack(query_index)
            THEN SetStack(dict, WithoutLastSix(query_index), item.value)
            ELSE SetQueryInfo(dict, query_index, item.value)
    ELSE dict

\* lines 69-84: the dict of one kind after the first n headers
RECURSIVE ParsedQueries(_, _, _)
ParsedQueries(items, kind, n) ==
    IF n = 0 THEN <<>>
    ELSE ParseHeader(ParsedQueries(items, kind, n - 1), kind, items[n])

\* lines 87-93: one log record per entry with a stack
StackTraceLogs(dict, request_type) ==
    LET with == SelectSeq(dict, LAMBDA e : "stack" \in DOMAIN e.query)
    IN [k \in 1..Len(with) |->
           [request_type |-> request_type, idx |-> with[k].idx,
            stack |-> with[k].query["stack"]]]

\* lines 96-116: one request event per entry with a query_info
RequestEvents(dict, request_type) ==
    LET with == SelectSeq(dict, LAMBDA e : "query_info" \in DOMAIN e.query)
    IN [k \in 1..Len(with) |->
           [request_type |-> request_type,
            name |-> with[k].query["query_info"]]]

\* parse_headers, lines 64-116
parse_headers(resp) ==
    LET items == HeaderItems(resp.headers)
        nplus1_queries == ParsedQueries(items, "NPLUS1", Len(items))
        slow_queries == ParsedQueries(items, "SLOW", Len(items))
    IN [logged |-> StackTraceLogs(nplus1_queries, "N+1 Query")
                     \o StackTraceLogs(slow_queries, "Slow Query"),
        events |-> RequestEvents(nplus1_queries, "N+1 Query")
                     \o RequestEvents(slow_queries, "Slow Query")]

\* a task of UserBehavior: the response has arrived
ReceiveResponse ==
    /\ pc = "done"
    /\ returned.status = 200
    /\ pc' = "parsed"
    /\ last' = [op |-> "parse_headers", response |-> returned,
                result |-> parse_headers(returned)]
    /\ UNCHANGED <<has_debug_toolbar, loop_body, passes, extras, sql_queries,
                   response, returned, log, next_uuid, dbvars, cache, now,
                   pubvars, org, requests>>

LocustNext ==
    \/ RecordLoopPass
    \/ \E s \in ExtraSqls, t \in Times : RecordQuery(s, t)
    \/ ProcessResponse
    \/ ReceiveResponse

(***************************************************************************)
(* Requests served at the same time.  Every call of process_response has   *)
(* its own request, response and local variables; the calls share the      *)
(* logger and the source of uuids.  The loops of lines 53-59 and 61-67 run *)
(* one iteration per step, so that the calls interleave between any two    *)
(* headers.                                                                *)
(***************************************************************************)
MaxRequestQueries == 2   \* queries per request served at the same time

RequestIds == {1, 2}

\* the query lists a request may have run before its response is processed
RequestQueries ==
    UNION {{[k \in 1..n |-> Query(sqls[k], LoopTime(k), k)] :
               sqls \in [1..n -> 1..2]} : n \in 0..MaxRequestQueries}

\* the response the view of request r produced
ResponseOf(r) == [InitialResponse EXCEPT !.id = r]

\* request r as process_response is entered
NewRequest(r, has_toolbar, queries) ==
    [pc |-> "entered", has_debug_toolbar |-> has_toolbar, queries |-> queries,
     sql_queries |-> queries, response |-> ResponseOf(r),
     sorted_n_plus_one_queries |-> <<>>, slow_queries |-> <<>>, i |-> 0]

\* lines 19-22 reading the statistics of the first request whatever the request
StatsOfFirstRequest(reqs, r) == reqs[1].queries

\* lines 19-22: the queries of the toolbar of this request
StatsOf(reqs, r) == reqs[r].queries

\* lines 18, 69: no debug_toolbar, the response is returned as it came
ReturnUntouched(r) ==
    /\ requests[r].pc = "entered"
    /\ ~requests[r].has_debug_toolbar
    /\ requests' = [requests EXCEPT ![r].pc = "returned"]
    /\ UNCHANGED <<mwvars, dbvars, cache, now, last, pubvars, org>>

\* lines 18-50: the local computation up to the two sorted lists
Prepare(r) ==
    /\ requests[r].pc = "entered"
    /\ requests[r].has_debug_toolbar
    /\ LET queries == StatsOf(requests, r)
           after == QueriesAfterGrouping(queries)
       IN requests' = [requests EXCEPT
              ![r].pc = "nplus1",
              ![r].sql_queries = after,
              ![r].sorted_n_plus_one_queries =
                  SortedNPlusOneQueries(NPlusOneQueries(RepeatedQueries(queries))),
              ![r].slow_queries = SlowQueries(after),
              ![r].i = 0]
    /\ UNCHANGED <<mwvars, dbvars, cache, now, last, pubvars, org>>

\* lines 53-59: one iteration of the loop over sorted_n_plus_one_queries
EmitNPlusOne(r) ==
    /\ requests[r].pc = "nplus1"
    /\ requests[r].i < Len(requests[r].sorted_n_plus_one_queries)
    /\ LET i == requests[r].i
           data == requests[r].sorted_n_plus_one_queries[i + 1]
       IN /\ requests' = [requests EXCEPT
                 ![r].i = i + 1,
                 ![r].response.headers =
                     SetHeaders(@, HeaderName("NPLUS1", i) :> next_uuid)]
          /\ log' = Append(log, NPlusOneLog(i, data, next_uuid))
    /\ next_uuid' = next_uuid + 1
    /\ UNCHANGED <<pc, has_debug_toolbar, loop_body, passes, extras,
                   sql_queries, response, returned, dbvars, cache, now, last,
                   pubvars, org>>

\* line 53: the loop over sorted_n_plus_one_queries is exhausted
StartSlow(r) ==
    /\ requests[r].pc = "nplus1"
    /\ requests[r].i = Len(requests[r].sorted_n_plus_one_queries)
    /\ requests' = [requests EXCEPT ![r].pc = "slow", ![r].i = 0]
    /\ UNCHANGED <<mwvars, dbvars, cache, now, last, pubvars, org>>

\* lines 61-67: one iteration of the loop over slow_queries
EmitSlow(r) ==
    /\ requests[r].pc = "slow"
    /\ requests[r].i < Len(requests[r].slow_queries)
    /\ LET i == requests[r].i
           query == requests[r].slow_queries[i + 1]
       IN /\ requests' = [requests EXCEPT
                 ![r].i = i + 1,
                 ![r].response.headers =
                     SetHeaders(@, HeaderName("SLOW", i) :> next_uuid)]
          /\ log' = Append(log, SlowLog(i, query, next_uuid))
    /\ next_uuid' = next_uuid + 1
    /\ UNCHANGED <<pc, has_debug_toolbar, loop_body, passes, extras,
                   sql_queries, response, returned, dbvars, cache, now, last,
                   pubvars, org>>

\* lines 61, 69: the loop over slow_queries is exhausted, return response
Return(r) ==
    /\ requests[r].pc = "slow"
    /\ requests[r].i = Len(requests[r].slow_queries)
    /\ requests' = [requests EXCEPT ![r].pc = "returned"]
    /\ UNCHANGED <<mwvars, dbvars, cache, now, last, pubvars, org>>

ConcurrentNext ==
    \E r \in RequestIds :
        \/ ReturnUntouched(r)
        \/ Prepare(r)
        \/ EmitNPlusOne(r)
        \/ StartSlow(r)
        \/ EmitSlow(r)
        \/ Return(r)

(***************************************************************************)
(* Properties of process_response                                          *)
(***************************************************************************)
Done == pc = "done"

\* number of query records with the given SQL text
CountOf(sql) == Cardinality({n \in 1..Len(sql_queries) : sql_queries[n].sql = sql})

\* sum of the times of the query records with the given SQL text, counted
\* as the millisecond units <<n, u>> with u <= time of the n-th record
SumTimes(queries, sql) ==
    Cardinality(UNION {{<<n, u>> : u \in 1..queries[n].time} :
                          n \in {m \in 1..Len(queries) : queries[m].sql = sql}})

\* the SQL texts that occur more than once
RepeatedSqls ==
    {s \in {sql_queries[n].sql : n \in 1..Len(sql_queries)} : CountOf(s) > 1}

\* the diagnostic headers of one kind on the response
DiagHeaders(kind) ==
    {h \in DOMAIN response.headers :
        h.prefix = "DJ_TB_SQL" /\ h.kind = kind /\ h.suffix = "UUID"}

Ranks(kind) == {h.rank : h \in DiagHeaders(kind)}

\* the log records carrying the identifier of header h
LogsOf(h) == {j \in 1..Len(log) : log[j].uuid = response.headers[h]}

\* the log record of the header of the given kind and rank
LogAt(kind, rank) ==
    log[CHOOSE j \in 1..Len(log) :
            \E h \in DiagHeaders(kind) : h.rank = rank /\ j \in LogsOf(h)]

\* C1: with a debug_toolbar, the NPLUS1 headers are numbered 1..min(10, G),
\* G the number of SQL texts occurring more than once, and every NPLUS1
\* header reports an SQL text that occurs more than once.
C1_NPlusOneHeaderCount ==
    (Done /\ has_debug_toolbar) =>
        /\ Cardinality(DiagHeaders("NPLUS1")) = Min(10, Cardinality(RepeatedSqls))
        /\ Ranks("NPLUS1") = 1..Min(10, Cardinality(RepeatedSqls))
        /\ \A h \in DiagHeaders("NPLUS1") :
              \A j \in LogsOf(h) : CountOf(log[j].sql) > 1

\* more repeated groups than the limit, and a statement that ran only once
C1_Witness ==
    /\ Done /\ has_debug_toolbar
    /\ Cardinality(RepeatedSqls) > 10
    /\ \E n \in 1..Len(sql_queries) : CountOf(sql_queries[n].sql) = 1
    /\ Cardinality(DiagHeaders("NPLUS1")) = 10

\* C2: the NPLUS1 ranks are in descending order of repetition count, and no
\* repeated SQL text left unreported has a count above a reported one.
C2_NPlusOneRanking ==
    (Done /\ has_debug_toolbar) =>
        LET ranks    == Ranks("NPLUS1")
            sqlAt    == [r \in ranks |-> LogAt("NPLUS1", r).sql]
            reported == {sqlAt[r] : r \in ranks}
            count    == [s \in RepeatedSqls \cup reported |-> CountOf(s)]
        IN /\ \A r1, r2 \in ranks :
                 r1 < r2 => count[sqlAt[r1]] >= count[sqlAt[r2]]
           /\ \A s \in RepeatedSqls \ reported :
                 \A t \in reported : count[s] <= count[t]

\* the eleventh group in execution order is the most repeated one and is
\* reported first; a less repeated group is left out
C2_Witness ==
    /\ Done /\ has_debug_toolbar
    /\ Cardinality(RepeatedSqls) > 10
    /\ LogAt("NPLUS1", 1).sql = 11
    /\ CountOf(11) = 3
    /\ \E s \in RepeatedSqls : CountOf(s) = 2

\* the query a slow-query log record is about (its own frame comes first)
QueryOf(record) == Head(record.stacktrace)

\* C3: with a debug_toolbar, the SLOW headers are numbered 1..min(5, N) for N
\* query records, in descending order of query time, and no unreported query
\* is slower than a reported one.
C3_SlowHeaders ==
    (Done /\ has_debug_toolbar) =>
        LET ranks    == Ranks("SLOW")
            logAt    == [r \in ranks |-> LogAt("SLOW", r)]
            reported == {QueryOf(logAt[r]) : r \in ranks}
        IN /\ Cardinality(DiagHeaders("SLOW")) = Min(5, Len(sql_queries))
           /\ ranks = 1..Min(5, Len(sql_queries))
           /\ Cardinality(reported) = Cardinality(ranks)
           /\ \A r \in ranks :
                 /\ QueryOf(logAt[r]) \in 1..Len(sql_queries)
                 /\ logAt[r].time = sql_queries[QueryOf(logAt[r])].time
           /\ \A r1, r2 \in ranks :
                 r1 < r2 => logAt[r1].time >= logAt[r2].time
           /\ \A n \in (1..Len(sql_queries)) \ reported :
                 \A m \in reported : sql_queries[n].time <= sql_queries[m].time

\* more than five queries; a query executed after five others is reported
\* while a faster one executed before it is left out
C3_Witness ==
    /\ Done /\ has_debug_toolbar
    /\ Len(sql_queries) > 5
    /\ \E r \in Ranks("SLOW") :
          LET n == QueryOf(LogAt("SLOW", r)) IN
          /\ n > 5
          /\ \E m \in 1..(n - 1) :
                /\ sql_queries[m].time < sql_queries[n].time
                /\ \A r2 \in Ranks("SLOW") : QueryOf(LogAt("SLOW", r2)) # m

\* C4: every diagnostic header has exactly one log record with its
\* identifier; that record has the header's kind and rank and describes the
\* SQL group (count, total time) or the query (SQL, time); there are as many
\* log records as diagnostic headers.
C4_HeadersMatchLog ==
    Done =>
        /\ \A h \in DiagHeaders("NPLUS1") :
              /\ Cardinality(LogsOf(h)) = 1
              /\ \A j \in LogsOf(h) :
                    /\ log[j].kind = "N+1 Query"
                    /\ log[j].rank = h.rank
                    /\ log[j].count = CountOf(log[j].sql)
                    /\ log[j].time = SumTimes(sql_queries, log[j].sql)
        /\ \A h \in DiagHeaders("SLOW") :
              /\ Cardinality(LogsOf(h)) = 1
              /\ \A j \in LogsOf(h) :
                    /\ log[j].kind = "Slow Query"
                    /\ log[j].rank = h.rank
                    /\ QueryOf(log[j]) \in 1..Len(sql_queries)
                    /\ log[j].sql = sql_queries[QueryOf(log[j])].sql
                    /\ log[j].time = sql_queries[QueryOf(log[j])].time
        /\ Len(log) = Cardinality(DiagHeaders("NPLUS1"))
                        + Cardinality(DiagHeaders("SLOW"))

\* headers of both kinds were written and logged
C4_Witness ==
    /\ Done
    /\ Cardinality(DiagHeaders("NPLUS1")) >= 2
    /\ Cardinality(DiagHeaders("SLOW")) = 5
    /\ Len(log) >= 7

\* C5: without a debug_toolbar no header is added and nothing is logged; in
\* every case the response returned is the one passed in, unchanged except
\* for added DJ_TB_SQL headers.
C5_ResponseFrame ==
    Done =>
        /\ (~has_debug_toolbar) => (response = InitialResponse /\ log = <<>>)
        /\ returned = response
        /\ response.id = InitialResponse.id
        /\ response.status = InitialResponse.status
        /\ response.content = InitialResponse.content
        /\ \A h \in DOMAIN InitialResponse.headers :
              /\ h \in DOMAIN response.headers
              /\ response.headers[h] = InitialResponse.headers[h]
        /\ \A h \in DOMAIN response.headers \ DOMAIN InitialResponse.headers :
              h.prefix = "DJ_TB_SQL"

\* a request without debug_toolbar that ran repeated queries was processed
C5_Witness ==
    /\ Done /\ ~has_debug_toolbar
    /\ Len(sql_queries) > 5
    /\ RepeatedSqls # {}

\* the loop of lines 25-38 has handled every record
GroupingDone == pc = "grouping" /\ last.i = Len(last.queries)

\* sum of the times of the first i records with the SQL text
SumTimesUpTo(queries, i, sql) ==
    Cardinality(UNION {{<<n, u>> : u \in 1..queries[n].time} :
                          n \in {m \in 1..i : queries[m].sql = sql}})

\* C15: the grouping step is exact.  After every iteration the dict has one
\* group per distinct SQL text handled so far, whose count is the number of
\* handled records with that text and whose total_time is the sum of their
\* times; the counts of all groups sum to the number of handled records (at
\* the end of the loop: all the query records).
C15_GroupingExact ==
    (pc = "grouping") =>
        LET groups == last.repeated_queries
            handled == 1..last.i
            sqls == {last.queries[n].sql : n \in handled}
        IN /\ {groups[k].sql : k \in 1..Len(groups)} = sqls
           /\ Len(groups) = Cardinality(sqls)
           /\ \A k \in 1..Len(groups) :
                 /\ groups[k].count =
                        Cardinality({n \in handled :
                                        last.queries[n].sql = groups[k].sql})
                 /\ groups[k].total_time =
                        SumTimesUpTo(last.queries, last.i, groups[k].sql)
           /\ SumSeq([k \in 1..Len(groups) |-> groups[k].count]) = last.i

\* the loop is over; one text occurred once, another more often and with
\* times above one millisecond
C15_Witness ==
    /\ GroupingDone
    /\ \E k \in 1..Len(last.repeated_queries) :
          last.repeated_queries[k].count = 1
    /\ \E k \in 1..Len(last.repeated_queries) :
          /\ last.repeated_queries[k].count > 1
          /\ last.repeated_queries[k].total_time
                 > last.repeated_queries[k].count

\* the loop leaves what process_response is computed from: the dict and the
\* query records with the stack traces of each group in its first record
GroupingAsComputed ==
    GroupingDone =>
        /\ last.repeated_queries = RepeatedQueries(last.queries)
        /\ sql_queries = QueriesAfterGrouping(last.queries)

\* the headers of one kind the parsed response carried
HeadersOfKind(kind) ==
    {h \in DOMAIN last.response.headers : StartsWith(h, kind)}

\* the names of a sequence of events
NamesOf(events) == {events[k].name : k \in 1..Len(events)}

\* the events of one type parse_headers fired
EventsOfType(request_type) ==
    SelectSeq(last.result.events, LAMBDA e : e.request_type = request_type)

\* C17: the load-test parser reports every diagnostic header.  For a response
\* with status 200 that carries k DJ_TB_SQL_NPLUS1_<i>_UUID headers and m
\* DJ_TB_SQL_SLOW_<i>_UUID headers, parse_headers fires exactly k events of
\* type "N+1 Query" and exactly m of type "Slow Query", and the names of the
\* events are the values of the headers.
C17_EveryHeaderReported ==
    (pc = "parsed") =>
        /\ Len(EventsOfType("N+1 Query")) = Cardinality(HeadersOfKind("NPLUS1"))
        /\ Len(EventsOfType("Slow Query")) = Cardinality(HeadersOfKind("SLOW"))
        /\ NamesOf(EventsOfType("N+1 Query"))
               = {last.response.headers[h] : h \in HeadersOfKind("NPLUS1")}
        /\ NamesOf(EventsOfType("Slow Query"))
               = {last.response.headers[h] : h \in HeadersOfKind("SLOW")}

\* what the parser does report: every header of a kind is stored under the
\* one key "UUID", so a kind with headers gives one event, named with the
\* value of the header of the highest rank
LastHeaderReported ==
    (pc = "parsed") =>
        \A kind \in {"NPLUS1", "SLOW"} :
            LET type == IF kind = "NPLUS1" THEN "N+1 Query" ELSE "Slow Query"
                hs == HeadersOfKind(kind)
                events == EventsOfType(type)
            IN IF hs = {} THEN events = <<>>
               ELSE /\ Len(events) = 1
                    /\ \E h \in hs :
                          /\ \A g \in hs : g.rank <= h.rank
                          /\ events[1].name = last.response.headers[h]

\* a log record with the header that carries its uuid in place of the uuid
\* ("none" when no header of the response carries it)
Linked(record, headers) ==
    [record EXCEPT !.uuid =
        IF \E h \in DOMAIN headers : h.prefix = HEADER_PREFIX
                                     /\ headers[h] = record.uuid
        THEN CHOOSE h \in DOMAIN headers : h.prefix = HEADER_PREFIX
                                           /\ headers[h] = record.uuid
        ELSE "none"]

\* the records of a log whose uuid a header of the response carries, in order,
\* each linked to its header
RecordsFor(records, headers) ==
    LET own == SelectSeq(records, LAMBDA rec :
                   \E h \in DOMAIN headers : h.prefix = HEADER_PREFIX
                                             /\ headers[h] = rec.uuid)
    IN [k \in 1..Len(own) |-> Linked(own[k], headers)]

\* process_response for request r with no other request being served
ServedAlone(r) ==
    ProcessResponseResult(requests[r].has_debug_toolbar, requests[r].queries,
                          ResponseOf(r), 1)

\* C16: calls of process_response for different requests interleave without
\* interference.  When a call returns, the response carries the header names
\* and the log holds, in order, the records (each under the uuid of the same
\* header) that the call gives with the request's own query list when no
\* other request is served; no record carries the uuid of two responses and
\* the rest of the response is as the view produced it.
C16_NoInterference ==
    /\ \A r \in DOMAIN requests :
          requests[r].pc = "returned" =>
              LET alone == ServedAlone(r)
                  headers == requests[r].response.headers
              IN /\ DOMAIN headers = DOMAIN alone.response.headers
                 /\ headers[ContentType] = alone.response.headers[ContentType]
                 /\ [requests[r].response EXCEPT !.headers = <<>>]
                        = [ResponseOf(r) EXCEPT !.headers = <<>>]
                 /\ RecordsFor(log, headers)
                        = RecordsFor(alone.log, alone.response.headers)
                 /\ Len(RecordsFor(alone.log, alone.response.headers))
                        = Len(alone.log)
                 /\ requests[r].sql_queries = alone.sql_queries
    /\ \A r, q \in DOMAIN requests :
          r # q =>
              \A h \in DOMAIN requests[r].response.headers :
              \A g \in DOMAIN requests[q].response.headers :
                  (h.prefix = HEADER_PREFIX /\ g.prefix = HEADER_PREFIX)
                      => requests[r].response.headers[h]
                             # requests[q].response.headers[g]

\* two requests with different query lists have both returned, and their
\* records alternate in the log
C16_Witness ==
    /\ DOMAIN requests = RequestIds
    /\ \A r \in RequestIds : requests[r].pc = "returned"
    /\ requests[1].queries # requests[2].queries
    /\ Len(log) >= 4
    /\ \E a, b, c \in 1..Len(log) :
          /\ a < b /\ b < c
          /\ \E h \in DOMAIN requests[1].response.headers :
                h.prefix = HEADER_PREFIX
                /\ requests[1].response.headers[h] = log[a].uuid
          /\ \E h \in DOMAIN requests[2].response.headers :
                h.prefix = HEADER_PREFIX
                /\ requests[2].response.headers[h] = log[b].uuid
          /\ \E h \in DOMAIN requests[1].response.headers :
                h.prefix = HEADER_PREFIX
                /\ requests[1].response.headers[h] = log[c].uuid

(***************************************************************************)
(* examples_app: the Author and Book tables (models.py) and the statistics *)
(* queries of query_examples.py.  A table is a function from primary keys  *)
(* to rows; querysets without an order_by come back in primary-key order.  *)
(***************************************************************************)
Names == {"Ann", "Bob"}
Years == {1940, 1980}

\* the (min_year, max_year, min_avg_year) triples callers pass: the one the
\* views use, and one that differs in min_avg_year only
ViewParams == <<1950, 2020, 1980>>
ParamSets  == {ViewParams, <<1950, 2020, 1900>>}

\* the elements of a set of numbers in ascending order
Ascending(S) ==
    [k \in 1..Cardinality(S) |->
        CHOOSE n \in S : Cardinality({m \in S : m <= n}) = k]

MaxOf(S) == CHOOSE x \in S : \A y \in S : y <= x

\* author.books.all(): the publication years of the author's books
BookYears(B, author) ==
    LET ids == Ascending({b \in DOMAIN B : B[b].author = author})
    IN [k \in 1..Len(ids) |-> B[ids[k]].publication_year]

\* the filter without .distinct(): the join has a row per book in the range
AuthorsWithBooksInRangeNotDistinct(A, B, min_year, max_year) ==
    LET ids == Ascending({b \in DOMAIN B :
                   /\ B[b].author \in DOMAIN A
                   /\ B[b].publication_year >= min_year
                   /\ B[b].publication_year <= max_year})
    IN [k \in 1..Len(ids) |-> B[ids[k]].author]

\* Author.objects.filter(books__publication_year__gte=min_year,
\*                       books__publication_year__lte=max_year).distinct()
AuthorsWithBooksInRange(A, B, min_year, max_year) ==
    Ascending({a \in DOMAIN A :
        \E b \in DOMAIN B : /\ B[b].author = a
                            /\ B[b].publication_year >= min_year
                            /\ B[b].publication_year <= max_year})

\* an average is kept as the exact fraction sum / count
Row(A, author, years) ==
    [author_id |-> author,
     author_name |-> A[author],
     book_count |-> Len(years),
     avg_publication_year |-> [sum |-> SumSeq(years), count |-> Len(years)],
     most_recent_year |-> MaxOf({years[k] : k \in 1..Len(years)})]

\* avg_year >= min_avg_year for avg_year = sum / count, count > 0
AvgAtLeast(years, min_avg_year) == SumSeq(years) >= min_avg_year * Len(years)

\* avg_year > min_avg_year
AvgAbove(years, min_avg_year) == SumSeq(years) > min_avg_year * Len(years)

\* complex_query_with_orm, lines 214-243: the statistics are taken over all
\* the books of every author who has a book in the range
complex_query_with_orm(A, B, min_year, max_year, min_avg_year) ==
    LET in_range == AuthorsWithBooksInRange(A, B, min_year, max_year)
        kept == SelectSeq(in_range, LAMBDA a :
                    /\ Len(BookYears(B, a)) > 0
                    /\ AvgAtLeast(BookYears(B, a), min_avg_year))
    IN [k \in 1..Len(kept) |-> Row(A, kept[k], BookYears(B, kept[k]))]

\* get_expensive_query_without_cache, lines 317-339: the query copied
get_expensive_query_without_cache(A, B, min_year, max_year, min_avg_year) ==
    LET in_range == AuthorsWithBooksInRange(A, B, min_year, max_year)
        kept == SelectSeq(in_range, LAMBDA a :
                    /\ Len(BookYears(B, a)) > 0
                    /\ AvgAtLeast(BookYears(B, a), min_avg_year))
    IN [k \in 1..Len(kept) |-> Row(A, kept[k], BookYears(B, kept[k]))]

\* lines 384-406 with the threshold test made strict
CachedQueryStrict(A, B, min_year, max_year, min_avg_year) ==
    LET in_range == AuthorsWithBooksInRange(A, B, min_year, max_year)
        kept == SelectSeq(in_range, LAMBDA a :
                    /\ Len(BookYears(B, a)) > 0
                    /\ AvgAbove(BookYears(B, a), min_avg_year))
    IN [k \in 1..Len(kept) |-> Row(A, kept[k], BookYears(B, kept[k]))]

\* get_expensive_query_with_cache, lines 384-406: the query copied once more
CachedQuery(A, B, min_year, max_year, min_avg_year) ==
    LET in_range == AuthorsWithBooksInRange(A, B, min_year, max_year)
        kept == SelectSeq(in_range, LAMBDA a :
                    /\ Len(BookYears(B, a)) > 0
                    /\ AvgAtLeast(BookYears(B, a), min_avg_year))
    IN [k \in 1..Len(kept) |-> Row(A, kept[k], BookYears(B, kept[k]))]

(***************************************************************************)
(* complex_query_with_raw_sql, lines 266-293.  JOIN ... WHERE b.publication *)
(* _year BETWEEN min AND max keeps the books in the range; GROUP BY author *)
(* aggregates those books only; HAVING AVG(...) >= min_avg_year filters    *)
(* the groups; ORDER BY avg_publication_year DESC (equal averages in       *)
(* primary-key order).                                                     *)
(***************************************************************************)
YearsInRange(B, author, min_year, max_year) ==
    SelectSeq(BookYears(B, author),
              LAMBDA y : y >= min_year /\ y <= max_year)

\* a / b > c / d for fractions with positive denominators
AvgGreater(x, y) == x.sum * y.count > y.sum * x.count

complex_query_with_raw_sql(A, B, min_year, max_year, min_avg_year) ==
    LET joined == SelectSeq(Ascending(DOMAIN A), LAMBDA a :
                      Len(YearsInRange(B, a, min_year, max_year)) > 0)
        having == SelectSeq(joined, LAMBDA a :
                      AvgAtLeast(YearsInRange(B, a, min_year, max_year),
                                 min_avg_year))
        rows   == [k \in 1..Len(having) |->
                      Row(A, having[k],
                          YearsInRange(B, having[k], min_year, max_year))]
        place  == [j \in 1..Len(rows) |->
                      1 + Cardinality({i \in 1..Len(rows) :
                              AvgGreater(rows[i].avg_publication_year,
                                         rows[j].avg_publication_year)})
                        + Cardinality({i \in 1..(j - 1) :
                              ~AvgGreater(rows[i].avg_publication_year,
                                          rows[j].avg_publication_year)
                              /\ ~AvgGreater(rows[j].avg_publication_year,
                                             rows[i].avg_publication_year)})]
    IN [q \in 1..Len(rows) |-> rows[CHOOSE j \in 1..Len(rows) : place[j] = q]]

(***************************************************************************)
(* get_all_books_and_authors_n_plus_one and _optimized, lines 13-39.       *)
(* Neither queryset has an order_by and Book has no Meta.ordering, so the  *)
(* database chooses the order of the rows.  The same statement on the same *)
(* tables is taken to give the same order (primary-key order of the table  *)
(* scanned); the select_related statement is a different one, an INNER     *)
(* JOIN of book and author, whose rows come out in the order of the table  *)
(* the database scans first.                                               *)
(***************************************************************************)
\* Book.objects.all(): the primary keys in the order of a scan of the table
BooksAll(B) == Ascending(DOMAIN B)

\* the book keys when the join scans author first and looks up its books
AuthorDriven(B) ==
    LET rank == [b \in DOMAIN B |->
                    Cardinality({c \in DOMAIN B :
                        \/ B[c].author < B[b].author
                        \/ B[c].author = B[b].author /\ c <= b})]
    IN [k \in 1..Cardinality(DOMAIN B) |->
            CHOOSE b \in DOMAIN B : rank[b] = k]

\* the orders in which book JOIN author can return its rows
JoinOrders(B) == {BooksAll(B), AuthorDriven(B)}

\* lines 20-25 returning one name per author instead of one per book
NPlusOneOncePerAuthor(A, B) ==
    LET ids == Ascending({B[b].author : b \in DOMAIN B})
    IN [author_names |-> [k \in 1..Len(ids) |-> A[ids[k]]],
        queries |-> 1 + Len(BooksAll(B))]

\* lines 20-25: one query for the books, one more per book for book.author
get_all_books_and_authors_n_plus_one(A, B) ==
    LET ids == BooksAll(B)
    IN [author_names |-> [k \in 1..Len(ids) |-> A[B[ids[k]].author]],
        queries |-> 1 + Len(ids)]

\* lines 33-39: one query, the rows in the order the join returned them
get_all_books_and_authors_optimized(A, B, order) ==
    [author_names |-> [k \in 1..Len(order) |-> A[B[order[k]].author]],
     queries |-> 1]

(***************************************************************************)
(* get_author_stats_without_annotation and _with_annotation, lines 80-131. *)
(* A number is kept as the exact fraction sum / count; SQL NULL (Python    *)
(* None) is the fraction with count 0.                                     *)
(***************************************************************************)
Zero == [sum |-> 0, count |-> 1]

None == [sum |-> 0, count |-> 0]

\* Avg("books__publication_year"): NULL over no rows
Avg(years) ==
    IF Len(years) = 0 THEN None
    ELSE [sum |-> SumSeq(years), count |-> Len(years)]

\* line 126 without the "or 0"
OrZeroLeftOut(x) == x

\* line 126, "author.avg_publication_year or 0": None and 0.0 both give 0
OrZero(x) == IF x = None \/ x.sum = 0 THEN Zero ELSE x

\* lines 85-108: the statistics computed in Python, one query per author
get_author_stats_without_annotation(A, B) ==
    LET ids == Ascending(DOMAIN A)
    IN [k \in 1..Len(ids) |->
           LET years == BookYears(B, ids[k])
               total_books == Len(years)
           IN [name |-> A[ids[k]],
               total_books |-> total_books,
               avg_publication_year |->
                   IF total_books > 0
                   THEN [sum |-> SumSeq(years), count |-> total_books]
                   ELSE Zero]]

\* lines 117-131: Count("books") and Avg("books__publication_year") over the
\* LEFT OUTER JOIN of author and book, grouped by author
get_author_stats_with_annotation(A, B) ==
    LET ids == Ascending(DOMAIN A)
    IN [k \in 1..Len(ids) |->
           LET years == BookYears(B, ids[k])
           IN [name |-> A[ids[k]],
               total_books |-> Len(years),
               avg_publication_year |-> OrZero(Avg(years))]]

(***************************************************************************)
(* django.core.cache as get_expensive_query_with_cache uses it.  An entry  *)
(* set at time t with timeout s (seconds) expires at t + 2 s half seconds; *)
(* get returns None for a missing or expired key.                          *)
(***************************************************************************)
\* the default of the cache_timeout parameter, in seconds
cache_timeout == 60
\* time.sleep(0.5): one half second, the unit of the clock
SLEEP == 1

\* the timeouts callers pass
Timeouts == {1}

\* line 367 with min_avg_year left out of the key
CacheKeyNoAvg(min_year, max_year, min_avg_year) ==
    <<"author_stats", min_year, max_year>>

\* line 367: f"author_stats_{min_year}_{max_year}_{min_avg_year}"
CacheKey(min_year, max_year, min_avg_year) ==
    <<"author_stats", min_year, max_year, min_avg_year>>

Live(c, key, t) == key \in DOMAIN c /\ c[key].expires > t

\* cache.get(key): [found, value]; found is FALSE where the code sees None
CacheGet(c, key, t) ==
    IF Live(c, key, t)
    THEN [found |-> TRUE, value |-> c[key].value]
    ELSE [found |-> FALSE, value |-> <<>>]

\* the cache after cache.get(key): an expired entry is dropped
AfterGet(c, key, t) ==
    IF key \in DOMAIN c /\ ~Live(c, key, t)
    THEN [k \in DOMAIN c \ {key} |-> c[k]]
    ELSE c

\* cache.set(key, value, timeout)
CacheSet(c, key, value, timeout, t) ==
    [k \in DOMAIN c \cup {key} |->
        IF k = key THEN [value |-> value, expires |-> t + 2 * timeout]
        ELSE c[k]]

\* line 375 written as a truth test: "if cached_result:"
IsHitTruthy(got) == got.found /\ got.value # <<>>

\* line 375: "if cached_result is not None:"
IsHit(got) == got.found

\* get_expensive_query_with_cache, lines 366-414: the result, whether it came
\* from the cache, and the cache and the clock after the call
get_expensive_query_with_cache(A, B, c, t, params, timeout) ==
    LET key == CacheKey(params[1], params[2], params[3])
        got == CacheGet(c, key, t)
        c1  == AfterGet(c, key, t)
    IN IF IsHit(got)
       THEN [result |-> got.value, from_cache |-> TRUE, ran_query |-> FALSE,
             cache |-> c1, now |-> t]
       ELSE LET result == CachedQuery(A, B, params[1], params[2], params[3])
            IN [result |-> result, from_cache |-> FALSE, ran_query |-> TRUE,
                cache |-> CacheSet(c1, key, result, timeout, t + SLEEP),
                now |-> t + SLEEP]

(***************************************************************************)
(* Publisher (models.py lines 3-8), Book.publisher (line 27) and           *)
(* get_book_publisher_name (utils.py lines 4-16)                           *)
(***************************************************************************)
PublisherNames == {"Acme", "Orbit"}

\* no Publisher rows
NoPublishers ==
    /\ publishers = <<>>
    /\ next_publisher_id = 1
    /\ book_publisher = <<>>

\* no request is being served
NoRequests == <<>>

\* the tables of complex_models.py, all empty
NoOrg == [departments |-> <<>>, employees |-> <<>>, projects |-> <<>>,
          assignments |-> <<>>, documents |-> <<>>, tasks |-> <<>>]

\* a function call that returned the value
Returned(value) == [outcome |-> "returned", value |-> value]

\* a function call that ended in the exception
Raised(exception) == [outcome |-> "raised", value |-> exception]

\* utils.py lines 10-16.  book.publisher is None for a NULL publisher_id and
\* otherwise the row Publisher.objects.get(id=publisher_id), which raises
\* Publisher.DoesNotExist when there is no such row; only Book.DoesNotExist is
\* caught.
get_book_publisher_name(B, P, BP, book_id) ==
    IF book_id \notin DOMAIN B THEN Returned("Book not found")
    ELSE IF book_id \notin DOMAIN BP THEN Returned("Publisher not available")
    ELSE IF BP[book_id] \notin DOMAIN P THEN Raised("Publisher.DoesNotExist")
    ELSE Returned(P[BP[book_id]])

(***************************************************************************)
(* complex_models.py and complex_queries.py.  org holds one sequence of    *)
(* rows per table; the primary key of a row is its index.  0 stands for a  *)
(* NULL foreign key, date or blob; dates are day numbers.  The result of a *)
(* division is kept with its operands: ok is FALSE where Python raises     *)
(* ZeroDivisionError.                                                      *)
(***************************************************************************)
\* timezone.now().date()
Today == 10

DepartmentCodes == <<"ENG">>

ProjectCodes == <<"APOLLO", "GEMINI">>

\* the codes callers look up: one that can exist and one that never does
LookupProjectCodes == {"APOLLO", "ZEUS"}

LookupDepartmentCodes == {"ENG", "OPS"}

Budgets == {0, 100}

EndDates == {0, 20}

Hours == {0, 10}

EmployeeNames == <<"Ada Ng", "Bo Li", "Cy Oz", "Di Xu">>

\* Task.STATUS_CHOICES, complex_models.py lines 102-107
STATUS_CHOICES == {"TODO", "IN_PROGRESS", "REVIEW", "DONE"}

\* the keys task_summary starts with, complex_queries.py lines 149-154
TaskSummaryKeys == {"TODO", "IN_PROGRESS", "REVIEW", "DONE"}

Number(x) == [ok |-> TRUE, num |-> x, den |-> 1]

\* x / y
Divide(x, y) == [ok |-> y # 0, num |-> x, den |-> y]

\* the ids of a table whose rows satisfy the test, in primary-key order
Filter(table, Test(_)) ==
    SelectSeq([k \in 1..Len(table) |-> k], LAMBDA k : Test(table[k]))

\* sum(f(row) for row in rows)
SumOver(table, ids, F(_)) == SumSeq([k \in 1..Len(ids) |-> F(table[ids[k]])])

FullName(o, employee) == EmployeeNames[employee]

\* lines 40-61
get_department_info(o, project) ==
    LET department == o.projects[project].department
    IN [code |-> o.departments[department].code,
        total_projects |->
            Len(Filter(o.projects, LAMBDA r : r.department = department))]

\* lines 73 and 341 with the test of total_hours left out
CostPerHourUnguarded(budget, total_hours) == Divide(budget, total_hours)

\* lines 73 and 341
CostPerHour(budget, total_hours) ==
    IF total_hours > 0 THEN Divide(budget, total_hours) ELSE Number(0)

\* lines 63-79
get_budget_info(o, project) ==
    LET assignments == Filter(o.assignments, LAMBDA r : r.project = project)
        total_hours == SumOver(o.assignments, assignments,
                               LAMBDA r : r.hours_allocated)
    IN [total_budget |-> o.projects[project].budget,
        total_hours |-> total_hours,
        cost_per_hour |-> CostPerHour(o.projects[project].budget, total_hours)]

\* completed / total * 100 if total > 0 else 0
Percentage(completed, total) ==
    IF total > 0 THEN Divide(completed * 100, total) ELSE Number(0)

\* lines 81-102
get_timeline_info(o, project) ==
    LET row == o.projects[project]
        tasks == Filter(o.tasks, LAMBDA r : r.project = project)
        total_tasks == Len(tasks)
        completed_tasks == Len(SelectSeq(tasks,
                               LAMBDA t : o.tasks[t].status = "DONE"))
    IN [start_date |-> row.start_date,
        end_date |-> row.end_date,
        days_elapsed |->
            IF Today > row.start_date THEN Today - row.start_date ELSE 0,
        days_remaining |->
            IF row.end_date # 0 /\ Today < row.end_date
            THEN row.end_date - Today ELSE 0,
        completion_percentage |-> Percentage(completed_tasks, total_tasks)]

\* "... if manager else 'No Manager'"
ManagerName(o, employee) ==
    IF o.employees[employee].manager # 0
    THEN FullName(o, o.employees[employee].manager)
    ELSE "No Manager"

\* lines 104-138
get_team_info(o, project) ==
    LET assignments == Filter(o.assignments, LAMBDA r : r.project = project)
    IN [k \in 1..Len(assignments) |->
           LET assignment == o.assignments[assignments[k]]
               employee == assignment.employee
           IN [name |-> FullName(o, employee),
               department |->
                   o.departments[o.employees[employee].department].code,
               hours_allocated |-> assignment.hours_allocated,
               manager |-> ManagerName(o, employee),
               assigned_tasks |->
                   Filter(o.tasks, LAMBDA r : /\ r.project = project
                                              /\ r.assigned_to = employee)]]

\* lines 160-179: the entry of one task, its subtasks listed inside it
TaskInfo(o, task) ==
    [id |-> task,
     status |-> o.tasks[task].status,
     assignee |-> FullName(o, o.tasks[task].assigned_to),
     subtasks |-> Filter(o.tasks, LAMBDA r : r.parent_task = task)]

\* lines 156-181 appending a task to the bucket of its parent's status
BucketOfParent(o, task) ==
    IF o.tasks[task].parent_task # 0
    THEN o.tasks[o.tasks[task].parent_task].status
    ELSE o.tasks[task].status

\* line 181, task_summary[task.status]: the bucket a task is appended to
BucketOf(o, task) == o.tasks[task].status

\* lines 140-183: raised is TRUE where task_summary[task.status] raises
\* KeyError
get_task_summary(o, project) ==
    LET tasks == Filter(o.tasks, LAMBDA r : r.project = project)
    IN [raised |-> \E k \in 1..Len(tasks) :
                       BucketOf(o, tasks[k]) \notin TaskSummaryKeys,
        buckets |-> [key \in TaskSummaryKeys |->
                        LET mine == SelectSeq(tasks,
                                        LAMBDA t : BucketOf(o, t) = key)
                        IN [k \in 1..Len(mine) |-> TaskInfo(o, mine[k])]]]

\* lines 185-211
get_document_info(o, project) ==
    LET documents == Filter(o.documents, LAMBDA r : r.project = project)
    IN [k \in 1..Len(documents) |->
           LET document == o.documents[documents[k]]
           IN [uploader |-> FullName(o, document.uploaded_by),
               size |-> IF document.content # 0 THEN document.content ELSE 0]]

\* the value of a call that returned None after logger.error(message)
ReturnedNone(message) ==
    [outcome |-> "returned", is_none |-> TRUE, value |-> <<>>,
     logged |-> <<message>>]

\* the value of a call that returned the report
ReturnedReport(report) ==
    [outcome |-> "returned", is_none |-> FALSE, value |-> report,
     logged |-> <<>>]

\* a call that ended in an exception it does not catch
RaisedFrom(exception) ==
    [outcome |-> "raised", is_none |-> FALSE, value |-> <<>>,
     logged |-> <<>>, exception |-> exception]

\* lines 10-38
get_project_performance_report(o, project_code) ==
    LET found == Filter(o.projects, LAMBDA r : r.code = project_code)
    IN IF found = <<>>
       THEN ReturnedNone(<<"Project with code", project_code, "not found">>)
       ELSE LET project == found[1]
                report ==
                    [project_name |-> o.projects[project].code,
                     project_code |-> o.projects[project].code,
                     department |-> get_department_info(o, project),
                     budget_info |-> get_budget_info(o, project),
                     timeline |-> get_timeline_info(o, project),
                     team |-> get_team_info(o, project),
                     tasks |-> get_task_summary(o, project).buckets,
                     documents |-> get_document_info(o, project)]
            IN IF ~report.budget_info.cost_per_hour.ok
                    \/ ~report.timeline.completion_percentage.ok
               THEN RaisedFrom("ZeroDivisionError")
               ELSE IF get_task_summary(o, project).raised
               THEN RaisedFrom("KeyError")
               ELSE ReturnedReport(report)

\* created_date__date__gte=start_date, created_date__date__lte=end_date
InRange(row, start_date, end_date) ==
    row.created_date >= start_date /\ row.created_date <= end_date

\* lines 294-327
get_team_performance(o, project, tasks) ==
    LET assignments == Filter(o.assignments, LAMBDA r : r.project = project)
    IN [k \in 1..Len(assignments) |->
           LET employee == o.assignments[assignments[k]].employee
               employee_tasks == SelectSeq(tasks,
                   LAMBDA t : o.tasks[t].assigned_to = employee)
               completed == SelectSeq(employee_tasks,
                   LAMBDA t : o.tasks[t].status = "DONE")
           IN [employee |-> FullName(o, employee),
               total_tasks |-> Len(employee_tasks),
               completed_tasks |-> Len(completed),
               completion_rate |->
                   Percentage(Len(completed), Len(employee_tasks))]]

\* lines 329-366: cost is salary * hours / 2000 per assignment
calculate_budget_utilization(o, project) ==
    LET assignments == Filter(o.assignments, LAMBDA r : r.project = project)
        total_hours == SumOver(o.assignments, assignments,
                               LAMBDA r : r.hours_allocated)
        budget == o.projects[project].budget
        total_cost == SumOver(o.assignments, assignments,
            LAMBDA r : o.employees[r.employee].salary * r.hours_allocated)
    IN [total_budget |-> budget,
        cost_per_hour |-> CostPerHour(budget, total_hours),
        total_cost |-> Divide(total_cost, 2000),
        utilization_percentage |->
            IF budget > 0 THEN Divide(total_cost * 100, 2000 * budget)
            ELSE Number(0)]

\* lines 256-292
analyze_single_project(o, project, start_date, end_date) ==
    LET tasks == Filter(o.tasks, LAMBDA r :
                     r.project = project /\ InRange(r, start_date, end_date))
        completed == SelectSeq(tasks, LAMBDA t : o.tasks[t].status = "DONE")
    IN [code |-> o.projects[project].code,
        completion_rate |-> Percentage(Len(completed), Len(tasks)),
        team_performance |-> get_team_performance(o, project, tasks),
        budget_utilization |-> calculate_budget_utilization(o, project)]

\* lines 368-409
get_employee_performance(o, department, start_date, end_date) ==
    LET employees == Filter(o.employees, LAMBDA r : r.department = department)
    IN [k \in 1..Len(employees) |->
           LET employee == employees[k]
               tasks == Filter(o.tasks, LAMBDA r :
                   r.assigned_to = employee /\ InRange(r, start_date, end_date))
               completed == SelectSeq(tasks,
                   LAMBDA t : o.tasks[t].status = "DONE")
               projects == SelectSeq([j \in 1..Len(o.projects) |-> j],
                   LAMBDA j :
                       /\ \E a \in 1..Len(o.assignments) :
                             /\ o.assignments[a].project = j
                             /\ o.assignments[a].employee = employee
                       /\ o.projects[j].start_date <= end_date
                       /\ o.projects[j].end_date # 0
                       /\ o.projects[j].end_date >= start_date)
           IN [name |-> FullName(o, employee),
               manager |-> ManagerName(o, employee),
               projects |-> projects,
               completion_rate |-> Percentage(Len(completed), Len(tasks))]]

\* lines 411-449
calculate_overall_metrics(o, department, projects, start_date, end_date) ==
    LET all_tasks == Filter(o.tasks, LAMBDA r :
                         /\ \E k \in 1..Len(projects) : r.project = projects[k]
                         /\ InRange(r, start_date, end_date))
        completed == SelectSeq(all_tasks,
                         LAMBDA t : o.tasks[t].status = "DONE")
        total_employees ==
            Len(Filter(o.employees, LAMBDA r : r.department = department))
    IN [total_tasks |-> Len(all_tasks),
        completed_tasks |-> Len(completed),
        completion_rate |-> Percentage(Len(completed), Len(all_tasks)),
        total_budget |-> SumOver(o.projects, projects, LAMBDA r : r.budget),
        total_employees |-> total_employees,
        avg_tasks_per_employee |->
            IF total_employees > 0
            THEN Divide(Len(all_tasks), total_employees) ELSE Number(0)]

\* every division in the analysis went through
AnalysisOk(analysis) ==
    /\ analysis.overall_metrics.completion_rate.ok
    /\ analysis.overall_metrics.avg_tasks_per_employee.ok
    /\ \A k \in 1..Len(analysis.employees) :
          analysis.employees[k].completion_rate.ok
    /\ \A k \in 1..Len(analysis.projects) :
          /\ analysis.projects[k].completion_rate.ok
          /\ analysis.projects[k].budget_utilization.cost_per_hour.ok
          /\ analysis.projects[k].budget_utilization.utilization_percentage.ok
          /\ \A j \in 1..Len(analysis.projects[k].team_performance) :
                analysis.projects[k].team_performance[j].completion_rate.ok

\* lines 214-254, called without dates: the last 90 days
analyze_department_performance(o, department_code) ==
    LET start_date == Today - 90
        end_date == Today
        found == Filter(o.departments, LAMBDA r : r.code = department_code)
    IN IF found = <<>>
       THEN ReturnedNone(<<"Department with code", department_code,
                           "not found">>)
       ELSE LET department == found[1]
                projects == Filter(o.projects,
                                   LAMBDA r : r.department = department)
                active == SelectSeq(projects, LAMBDA j :
                              \/ o.projects[j].end_date = 0
                              \/ o.projects[j].end_date >= Today)
                analysis ==
                    [department |->
                         [code |-> o.departments[department].code,
                          total_projects |-> Len(projects),
                          active_projects |-> Len(active)],
                     projects |-> [k \in 1..Len(projects) |->
                         analyze_single_project(o, projects[k],
                                                start_date, end_date)],
                     employees |-> get_employee_performance(o, department,
                                       start_date, end_date),
                     overall_metrics |-> calculate_overall_metrics(o,
                         department, projects, start_date, end_date)]
            IN IF AnalysisOk(analysis) THEN ReturnedReport(analysis)
               ELSE RaisedFrom("ZeroDivisionError")

(***************************************************************************)
(* Requests and calls                                                      *)
(***************************************************************************)
Nothing == [op |-> "none"]

Remove(f, key) == [k \in DOMAIN f \ {key} |-> f[k]]

Put(f, key, value) ==
    [k \in DOMAIN f \cup {key} |-> IF k = key THEN value ELSE f[k]]

\* rows inserted so far (the primary keys handed out)
RowsCreated == (next_author_id - 1) + (next_book_id - 1)

\* POST /authors/
CreateAuthor(name) ==
    /\ RowsCreated < MaxRows
    /\ authors' = Put(authors, next_author_id, name)
    /\ next_author_id' = next_author_id + 1
    /\ last' = Nothing
    /\ UNCHANGED <<books, next_book_id, cache, now, mwvars, pubvars, org, requests>>

\* PUT /authors/<id>/
UpdateAuthor(id, name) ==
    /\ id \in DOMAIN authors
    /\ authors[id] # name
    /\ authors' = Put(authors, id, name)
    /\ last' = Nothing
    /\ UNCHANGED <<books, next_author_id, next_book_id, cache, now, mwvars, pubvars, org, requests>>

\* DELETE /authors/<id>/: Book.author is on_delete=CASCADE
DeleteAuthor(id) ==
    /\ id \in DOMAIN authors
    /\ authors' = Remove(authors, id)
    /\ books' = [b \in {x \in DOMAIN books : books[x].author # id} |-> books[b]]
    /\ book_publisher' = [b \in DOMAIN book_publisher \cap DOMAIN books' |->
                              book_publisher[b]]
    /\ last' = Nothing
    /\ UNCHANGED <<next_author_id, next_book_id, cache, now, mwvars,
                   publishers, next_publisher_id, org, requests>>

\* POST /books/
CreateBook(author, year) ==
    /\ RowsCreated < MaxRows
    /\ author \in DOMAIN authors
    /\ books' = Put(books, next_book_id,
                    [author |-> author, publication_year |-> year])
    /\ next_book_id' = next_book_id + 1
    /\ last' = Nothing
    /\ UNCHANGED <<authors, next_author_id, cache, now, mwvars, pubvars, org, requests>>

\* PUT /books/<id>/
UpdateBook(id, author, year) ==
    /\ id \in DOMAIN books
    /\ author \in DOMAIN authors
    /\ books[id] # [author |-> author, publication_year |-> year]
    /\ books' = Put(books, id, [author |-> author, publication_year |-> year])
    /\ last' = Nothing
    /\ UNCHANGED <<authors, next_author_id, next_book_id, cache, now, mwvars, pubvars, org, requests>>

\* DELETE /books/<id>/
DeleteBook(id) ==
    /\ id \in DOMAIN books
    /\ books' = Remove(books, id)
    /\ book_publisher' = Remove(book_publisher, id)
    /\ last' = Nothing
    /\ UNCHANGED <<authors, next_author_id, next_book_id, cache, now, mwvars,
                   publishers, next_publisher_id, org, requests>>

\* half a second passes
Tick ==
    /\ now < MaxClock
    /\ now' = now + 1
    /\ last' = Nothing
    /\ UNCHANGED <<dbvars, cache, mwvars, pubvars, org, requests>>

\* a call of get_expensive_query_with_cache(min_year, max_year, min_avg_year,
\* cache_timeout)
CallWithCache(params, timeout) ==
    LET r == get_expensive_query_with_cache(authors, books, cache, now,
                                            params, timeout)
    IN /\ r.now <= MaxClock
       /\ cache' = r.cache
       /\ now' = r.now
       /\ last' = [op |-> "call", params |-> params, timeout |-> timeout,
                   result |-> r.result, from_cache |-> r.from_cache,
                   ran_query |-> r.ran_query]
       /\ UNCHANGED <<dbvars, mwvars, pubvars, org, requests>>

\* GET /examples/query-caching/: query_caching_example, views.py lines 183-222
QueryCachingExample ==
    LET p       == ViewParams
        without == get_expensive_query_without_cache(authors, books,
                                                     p[1], p[2], p[3])
        first   == get_expensive_query_with_cache(authors, books, cache,
                                                  now + SLEEP, p, cache_timeout)
        second  == get_expensive_query_with_cache(authors, books, first.cache,
                                                  first.now, p, cache_timeout)
    IN /\ second.now <= MaxClock
       /\ cache' = second.cache
       /\ now' = second.now
       /\ last' = [op |-> "view",
                   without_cache |-> without,
                   with_cache_first_call |->
                       [results |-> first.result, from_cache |-> first.from_cache],
                   with_cache_second_call |->
                       [results |-> second.result, from_cache |-> second.from_cache]]
       /\ UNCHANGED <<dbvars, mwvars, pubvars, org, requests>>

\* Publisher.objects.create(name=name)
CreatePublisher(name) ==
    /\ next_publisher_id <= MaxPublishers
    /\ publishers' = Put(publishers, next_publisher_id, name)
    /\ next_publisher_id' = next_publisher_id + 1
    /\ last' = Nothing
    /\ UNCHANGED <<dbvars, cache, now, mwvars, book_publisher, org, requests>>

\* the Book admin: the publisher of a book is set, or cleared
SetBookPublisher(id, publisher) ==
    /\ id \in DOMAIN books
    /\ publisher \in DOMAIN publishers \cup {0}
    /\ book_publisher' = IF publisher = 0 THEN Remove(book_publisher, id)
                         ELSE Put(book_publisher, id, publisher)
    /\ book_publisher' # book_publisher
    /\ last' = Nothing
    /\ UNCHANGED <<dbvars, cache, now, mwvars, publishers, next_publisher_id,
                   org, requests>>

\* the rows of Book.publisher after a Publisher is deleted with the
\* on_delete rule left out: the books keep the publisher_id
KeepPublisherId(BP, id) == BP

\* models.py line 27, on_delete=models.SET_NULL: the books of a deleted
\* Publisher get a NULL publisher
SetNull(BP, id) == [b \in {x \in DOMAIN BP : BP[x] # id} |-> BP[b]]

\* publisher.delete()
DeletePublisher(id) ==
    /\ id \in DOMAIN publishers
    /\ publishers' = Remove(publishers, id)
    /\ book_publisher' = SetNull(book_publisher, id)
    /\ last' = Nothing
    /\ UNCHANGED <<dbvars, cache, now, mwvars, next_publisher_id, org, requests>>

\* a call of get_book_publisher_name(book_id)
CallGetBookPublisherName(book_id) ==
    /\ last' = [op |-> "publisher_name", book_id |-> book_id,
                result |-> get_book_publisher_name(books, publishers,
                                                   book_publisher, book_id)]
    /\ UNCHANGED <<dbvars, cache, now, mwvars, pubvars, org, requests>>

DbNext ==
    \/ \E n \in Names : CreateAuthor(n)
    \/ \E a \in 1..MaxRows, n \in Names : UpdateAuthor(a, n)
    \/ \E a \in 1..MaxRows : DeleteAuthor(a)
    \/ \E a \in 1..MaxRows, y \in Years : CreateBook(a, y)
    \/ \E b \in 1..MaxRows, a \in 1..MaxRows, y \in Years : UpdateBook(b, a, y)
    \/ \E b \in 1..MaxRows : DeleteBook(b)

CacheNext ==
    \/ DbNext
    \/ Tick
    \/ \E p \in ParamSets, t \in Timeouts : CallWithCache(p, t)
    \/ QueryCachingExample

\* the endpoint and the requests that change the tables
ViewNext ==
    \/ DbNext
    \/ Tick
    \/ QueryCachingExample

\* the publishers, the books and the calls of get_book_publisher_name
PublisherNext ==
    \/ \E n \in Names : CreateAuthor(n)
    \/ \E a \in 1..MaxRows, y \in Years : CreateBook(a, y)
    \/ \E b \in 1..MaxRows : DeleteBook(b)
    \/ \E n \in PublisherNames : CreatePublisher(n)
    \/ \E b \in 1..MaxRows, q \in 0..MaxPublishers : SetBookPublisher(b, q)
    \/ \E q \in 1..MaxPublishers : DeletePublisher(q)
    \/ \E b \in 1..MaxRows : CallGetBookPublisherName(b)

\* the example tables are empty, nothing is cached, nothing was called
AppIdleTables ==
    /\ authors = <<>>
    /\ books = <<>>
    /\ next_author_id = 1
    /\ next_book_id = 1
    /\ cache = <<>>
    /\ now = 0
    /\ last = Nothing
    /\ NoPublishers

\* no request is passing through the middleware
MwIdle ==
    /\ pc = "idle"
    /\ has_debug_toolbar = FALSE
    /\ loop_body = 0
    /\ passes = 0
    /\ extras = 0
    /\ sql_queries = <<>>
    /\ response = InitialResponse
    /\ returned = "none"
    /\ log = <<>>
    /\ next_uuid = 1

\* GET /examples/raw-sql/: raw_sql_example, views.py lines 145-166
RawSqlExample ==
    LET p == ViewParams IN
    /\ last' = [op |-> "raw_sql",
                params |-> p,
                orm_query |-> complex_query_with_orm(authors, books,
                                                     p[1], p[2], p[3]),
                raw_sql_query |-> complex_query_with_raw_sql(authors, books,
                                                             p[1], p[2], p[3])]
    /\ UNCHANGED <<dbvars, cache, now, mwvars, pubvars, org, requests>>

\* both complex queries called with the same arguments
CallComplexQueries(p) ==
    /\ last' = [op |-> "complex",
                params |-> p,
                orm_query |-> complex_query_with_orm(authors, books,
                                                     p[1], p[2], p[3]),
                raw_sql_query |-> complex_query_with_raw_sql(authors, books,
                                                             p[1], p[2], p[3])]
    /\ UNCHANGED <<dbvars, cache, now, mwvars, pubvars, org, requests>>

\* both book-and-author listings called on the same tables
CallBooksAndAuthors(order) ==
    /\ last' = [op |-> "books_and_authors",
                n_plus_one |->
                    get_all_books_and_authors_n_plus_one(authors, books),
                optimized |->
                    get_all_books_and_authors_optimized(authors, books, order)]
    /\ UNCHANGED <<dbvars, cache, now, mwvars, pubvars, org, requests>>

\* GET /examples/annotation/: annotation_example, views.py lines 69-91
AnnotationExample ==
    /\ last' = [op |-> "annotation",
                without_annotation |->
                    get_author_stats_without_annotation(authors, books),
                with_annotation |->
                    get_author_stats_with_annotation(authors, books)]
    /\ UNCHANGED <<dbvars, cache, now, mwvars, pubvars, org, requests>>

\* a call of complex_query_with_orm and a call of
\* get_expensive_query_without_cache (which sleeps half a second first) with
\* the same arguments and no write in between
CallExpensiveQueries(p) ==
    /\ now + SLEEP <= MaxClock
    /\ now' = now + SLEEP
    /\ last' = [op |-> "expensive",
                params |-> p,
                orm_query |-> complex_query_with_orm(authors, books,
                                                     p[1], p[2], p[3]),
                without_cache |-> get_expensive_query_without_cache(
                                      authors, books, p[1], p[2], p[3])]
    /\ UNCHANGED <<dbvars, cache, mwvars, pubvars, org, requests>>

QueryNext ==
    \/ RawSqlExample
    \/ \E p \in ParamSets : CallExpensiveQueries(p)
    \/ \E p \in ParamSets : CallComplexQueries(p)
    \/ \E order \in JoinOrders(books) : CallBooksAndAuthors(order)
    \/ AnnotationExample

\* a database with some authors and books in it
QueryInit ==
    /\ MwIdle
    /\ \E n \in 0..MaxQueryAuthors :
          /\ authors \in [1..n -> Names]
          /\ next_author_id = n + 1
          /\ \E m \in 0..MaxQueryBooks :
                /\ books \in [1..m -> [author : 1..n, publication_year : Years]]
                /\ next_book_id = m + 1
    /\ cache = <<>>
    /\ now = 0
    /\ last = Nothing
    /\ NoPublishers
    /\ requests = NoRequests
    /\ org = NoOrg

SpecQuery == QueryInit /\ [][QueryNext]_vars

(***************************************************************************)
(* Databases for the reports of complex_queries.py, and the calls          *)
(***************************************************************************)
\* the tables of up to n rows whose k-th row is one of Rows(k)
Tables(n, Rows(_)) ==
    UNION {{t \in [1..m -> UNION {Rows(k) : k \in 1..m}] :
               \A k \in 1..m : t[k] \in Rows(k)} : m \in 0..n}

DepartmentRows(k) == {[code |-> DepartmentCodes[k]]}

\* an employee reports to nobody or to the employee hired before
EmployeeRows(k, nd) ==
    [department : 1..nd, manager : {0, k - 1}, salary : {1000}]

ProjectRows(k, nd) ==
    [code : {ProjectCodes[k]}, department : 1..nd, budget : Budgets,
     start_date : {5}, end_date : EndDates]

\* an assignment is of the employee hired last to the project created last
AssignmentRows(np, ne) ==
    [project : {p \in {np} : p >= 1}, employee : {e \in {ne} : e >= 1},
     hours_allocated : Hours]

\* every project has a document without content and one with content
DocumentsOf(np, ne) ==
    IF ne = 0 THEN <<>>
    ELSE [k \in 1..(2 * np) |->
             [project |-> (k + 1) \div 2, uploaded_by |-> 1,
              content |-> IF k % 2 = 1 THEN 0 ELSE 3]]

\* a task is a top-level task or a subtask of the task created before it; the
\* admin form accepts a status of STATUS_CHOICES only
TaskRows(k, np, ne) ==
    [project : 1..np, assigned_to : {e \in {1, ne} : e >= 1 /\ e <= ne},
     parent_task : {0, k - 1}, status : STATUS_CHOICES, created_date : {Today}]

\* the tasks of a database for the two reports: of the project created last
\* and the employee hired last
ReportTaskRows(k, np, ne) ==
    [project : {p \in {np} : p >= 1}, assigned_to : {e \in {ne} : e >= 1},
     parent_task : {0, k - 1}, status : STATUS_CHOICES,
     created_date : {Today}]

\* a database for the two reports
ReportInit ==
    /\ MwIdle
    /\ AppIdleTables
    /\ requests = NoRequests
    /\ \E departments \in Tables(Len(DepartmentCodes), DepartmentRows) :
       \E employees \in Tables(MaxEmployees,
                               LAMBDA k : EmployeeRows(k, Len(departments))) :
       \E projects \in Tables(MaxProjects,
                              LAMBDA k : ProjectRows(k, Len(departments))) :
       \E assignments \in Tables(MaxAssignments,
              LAMBDA k : AssignmentRows(Len(projects), Len(employees))) :
       \E tasks \in Tables(MaxReportTasks,
              LAMBDA k : ReportTaskRows(k, Len(projects), Len(employees))) :
          org = [departments |-> departments, employees |-> employees,
                 projects |-> projects, assignments |-> assignments,
                 documents |-> DocumentsOf(Len(projects), Len(employees)),
                 tasks |-> tasks]

\* a call of get_project_performance_report(project_code)
CallProjectReport(project_code) ==
    /\ last' = [op |-> "project_report", code |-> project_code,
                result |-> get_project_performance_report(org, project_code)]
    /\ UNCHANGED <<dbvars, cache, now, mwvars, pubvars, org, requests>>

\* a call of analyze_department_performance(department_code), dates left out
CallDepartmentAnalysis(department_code) ==
    /\ last' = [op |-> "department_analysis", code |-> department_code,
                result |-> analyze_department_performance(org, department_code)]
    /\ UNCHANGED <<dbvars, cache, now, mwvars, pubvars, org, requests>>

ReportNext ==
    \/ \E code \in LookupProjectCodes : CallProjectReport(code)
    \/ \E code \in LookupDepartmentCodes : CallDepartmentAnalysis(code)

SpecReport == ReportInit /\ [][ReportNext]_vars

\* one department, two employees and two projects, with their tasks
TasksInit ==
    /\ MwIdle
    /\ AppIdleTables
    /\ requests = NoRequests
    /\ \E tasks \in Tables(MaxTasks, LAMBDA k : TaskRows(k, 2, 2)) :
          org = [departments |-> <<[code |-> "ENG"]>>,
                 employees |-> <<[department |-> 1, manager |-> 0,
                                  salary |-> 1000],
                                 [department |-> 1, manager |-> 1,
                                  salary |-> 1000]>>,
                 projects |-> [k \in 1..2 |->
                                  [code |-> ProjectCodes[k], department |-> 1,
                                   budget |-> 100, start_date |-> 5,
                                   end_date |-> 0]],
                 assignments |-> <<>>,
                 documents |-> <<>>,
                 tasks |-> tasks]

\* get_task_summary(project), called for the report of the project
CallTaskSummary(project) ==
    /\ project \in 1..Len(org.projects)
    /\ last' = [op |-> "task_summary", project |-> project,
                result |-> get_task_summary(org, project)]
    /\ UNCHANGED <<dbvars, cache, now, mwvars, pubvars, org, requests>>

TasksNext ==
    \/ \E project \in 1..2 : CallTaskSummary(project)
    \/ \E code \in LookupProjectCodes : CallProjectReport(code)

SpecTasks == TasksInit /\ [][TasksNext]_vars

\* C18: get_expensive_query_without_cache uses the query of
\* complex_query_with_orm.  On the same tables and with the same
\* (min_year, max_year, min_avg_year) its result list is the list
\* complex_query_with_orm returns, and no author has two entries in it.
C18_SameQueryAsOrm ==
    (last.op = "expensive") =>
        /\ last.without_cache = last.orm_query
        /\ \A i, j \in 1..Len(last.without_cache) :
              i # j => last.without_cache[i].author_id
                           # last.without_cache[j].author_id

\* the two functions were called and returned an author with two books in
\* the range, next to an author they left out
C18_Witness ==
    /\ last.op = "expensive"
    /\ \E i \in 1..Len(last.without_cache) :
          /\ last.without_cache[i].book_count = 2
          /\ last.without_cache[i].most_recent_year >= last.params[1]
    /\ Len(last.without_cache) < Len(authors)

(***************************************************************************)
(* Properties of the cached query                                          *)
(***************************************************************************)
\* the cache key of a call, spelled out
KeyOf(p) == <<"author_stats", p[1], p[2], p[3]>>

\* an entry for the key is in the cache and has not expired at time t
Present(c, key, t) == key \in DOMAIN c /\ c[key].expires > t

\* what get_expensive_query_without_cache returns now
Uncached(p) == get_expensive_query_without_cache(authors, books, p[1], p[2], p[3])

\* C6: a call looks up the key built from its three parameters; with an entry
\* present it returns the entry with from_cache = True, runs no query and
\* leaves the cache alone; with none it runs the query, stores the result
\* under the key with cache_timeout and returns it with from_cache = False.
C6_CacheLookup ==
    [][(last'.op = "call") =>
        LET p   == last'.params
            key == KeyOf(p)
        IN IF Present(cache, key, now)
           THEN /\ last'.from_cache
                /\ ~last'.ran_query
                /\ last'.result = cache[key].value
                /\ cache' = cache
           ELSE /\ ~last'.from_cache
                /\ last'.ran_query
                /\ last'.result = Uncached(p)
                /\ key \in DOMAIN cache'
                /\ cache'[key] = [value |-> last'.result,
                                  expires |-> now' + 2 * last'.timeout]
                /\ \A k \in DOMAIN cache' \ {key} :
                      k \in DOMAIN cache /\ cache'[k] = cache[k]]_vars

\* a miss stored a non-empty result while another key's entry was present
C6_Witness ==
    /\ last.op = "call"
    /\ ~last.from_cache
    /\ last.result # <<>>
    /\ Present(cache, KeyOf(last.params), now)
    /\ \E k \in DOMAIN cache : k # KeyOf(last.params)

\* C7: an entry stays as the miss stored it until its timeout has elapsed;
\* until then a call with its parameters returns from_cache = True and the
\* stored list, the empty list included; once the timeout has elapsed the
\* call is a miss again and runs the query.
C7_HitUntilTimeout ==
    [][/\ \A k \in DOMAIN cache :
             cache[k].expires > now' =>
                 (k \in DOMAIN cache' /\ cache'[k] = cache[k])
       /\ (last'.op = "call") =>
             LET key == KeyOf(last'.params) IN
             /\ (key \in DOMAIN cache /\ cache[key].expires > now) =>
                    (last'.from_cache /\ last'.result = cache[key].value)
             /\ (key \in DOMAIN cache /\ cache[key].expires <= now) =>
                    (~last'.from_cache /\ last'.ran_query)
             /\ (~last'.from_cache) =>
                    /\ key \in DOMAIN cache'
                    /\ cache'[key].value = last'.result
                    /\ cache'[key].expires = now' + 2 * last'.timeout]_vars

\* a hit that returned a stored empty list
C7_Witness ==
    /\ last.op = "call"
    /\ last.from_cache
    /\ last.result = <<>>
    /\ now > 0

\* C8: in every invocation of query_caching_example the first cached call is a
\* miss and the second one a hit.
C8_FirstMissSecondHit ==
    (last.op = "view") =>
        /\ ~last.with_cache_first_call.from_cache
        /\ last.with_cache_second_call.from_cache

\* C9: a cached call returns what get_expensive_query_without_cache returns
\* at that point.
C9_SameAsUncached ==
    (last.op = "call") => last.result = Uncached(last.params)

\* C9, for misses and hits apart: a miss returns what get_expensive_query_without_cache returns
\* at that point; a hit returns the list held in the cache, whatever the
\* tables hold now.
C9_MissSameHitStored ==
    /\ (last.op = "call") =>
          /\ (~last.from_cache) => last.result = Uncached(last.params)
          /\ last.from_cache =>
                /\ KeyOf(last.params) \in DOMAIN cache
                /\ last.result = cache[KeyOf(last.params)].value
    /\ (last.op = "view") =>
          /\ last.without_cache = Uncached(ViewParams)
          /\ (~last.with_cache_first_call.from_cache) =>
                last.with_cache_first_call.results = last.without_cache
          /\ last.with_cache_second_call.results
                = last.with_cache_first_call.results

\* a hit returned a list that the uncached query no longer returns
C9_Witness ==
    /\ last.op = "call"
    /\ last.from_cache
    /\ last.result # Uncached(last.params)
    /\ Uncached(last.params) # <<>>

(***************************************************************************)
(* Properties of the ORM and raw-SQL queries                               *)
(***************************************************************************)
SameAvg(x, y) == x.sum * y.count = y.sum * x.count

RowsOf(result) == {result[k] : k \in 1..Len(result)}

\* C10: both complex queries return the same authors with the same
\* book_count, avg_publication_year and most_recent_year.
C10_RawSqlSameAsOrm ==
    (last.op \in {"raw_sql", "complex"}) =>
        LET orm == RowsOf(last.orm_query)
            raw == RowsOf(last.raw_sql_query)
        IN /\ {r.author_id : r \in orm} = {r.author_id : r \in raw}
           /\ \A x \in orm, y \in raw :
                 x.author_id = y.author_id =>
                    /\ x.book_count = y.book_count
                    /\ SameAvg(x.avg_publication_year, y.avg_publication_year)
                    /\ x.most_recent_year = y.most_recent_year

(***************************************************************************)
(* Properties of the paired listings                                       *)
(***************************************************************************)
\* how often x occurs in the list
Occurrences(list, x) == Cardinality({k \in 1..Len(list) : list[k] = x})

\* the same elements, each as often
SameBag(s, t) ==
    /\ Len(s) = Len(t)
    /\ \A k \in 1..Len(s) : Occurrences(s, s[k]) = Occurrences(t, s[k])

\* C11: both listings return the same list of author names, one entry per
\* book in the same order; they issue 1 + number of books queries and 1.
C11_SameListOfNames ==
    (last.op = "books_and_authors") =>
        /\ last.optimized.author_names = last.n_plus_one.author_names
        /\ Len(last.n_plus_one.author_names) = Cardinality(DOMAIN books)
        /\ last.n_plus_one.queries = 1 + Cardinality(DOMAIN books)
        /\ last.optimized.queries = 1

\* C11, order left aside: both listings return the same author names, each as
\* often, one entry per book, the name being that of the book's author; they
\* issue 1 + number of books queries and 1.
C11_SameNamesAnyOrder ==
    (last.op = "books_and_authors") =>
        /\ SameBag(last.optimized.author_names, last.n_plus_one.author_names)
        /\ Len(last.n_plus_one.author_names) = Cardinality(DOMAIN books)
        /\ \A n \in Names :
              Occurrences(last.n_plus_one.author_names, n)
                  = Cardinality({b \in DOMAIN books : authors[books[b].author] = n})
        /\ last.n_plus_one.queries = 1 + Cardinality(DOMAIN books)
        /\ last.optimized.queries = 1

\* two books of differently named authors, listed in two different orders
C11_Witness ==
    /\ last.op = "books_and_authors"
    /\ Len(last.n_plus_one.author_names) = 2
    /\ last.optimized.author_names # last.n_plus_one.author_names

\* C12: both statistics functions give every author the same total_books and
\* the same avg_publication_year, which is 0 for an author without books.
C12_SameStatistics ==
    (last.op = "annotation") =>
        LET without == last.without_annotation
            with    == last.with_annotation
            ids     == Ascending(DOMAIN authors)
        IN /\ Len(without) = Len(ids)
           /\ SameBag(without, with)
           /\ \A k \in 1..Len(ids) :
                 LET mine == {b \in DOMAIN books : books[b].author = ids[k]}
                 IN /\ with[k].name = authors[ids[k]]
                    /\ with[k].total_books = Cardinality(mine)
                    /\ with[k].total_books = without[k].total_books
                    /\ SameAvg(with[k].avg_publication_year,
                               without[k].avg_publication_year)
                    /\ with[k].avg_publication_year.count > 0
                    /\ (mine = {}) => with[k].avg_publication_year = Zero

\* statistics for an author without books next to one with two books
C12_Witness ==
    /\ last.op = "annotation"
    /\ \E k \in 1..Len(last.with_annotation) :
          last.with_annotation[k].total_books = 0
    /\ \E k \in 1..Len(last.with_annotation) :
          /\ last.with_annotation[k].total_books = 2
          /\ last.with_annotation[k].avg_publication_year.sum = 1940 + 1980

(***************************************************************************)
(* Properties of get_book_publisher_name                                   *)
(***************************************************************************)
\* C14: get_book_publisher_name never raises and returns "Book not found" when
\* no book has the id, "Publisher not available" when the book has no
\* publisher (also after its publisher was deleted), and the publisher's name
\* otherwise.
C14_ThreeOutcomes ==
    (last.op = "publisher_name") =>
        LET id == last.book_id IN
        /\ last.result.outcome = "returned"
        /\ (id \notin DOMAIN books) => last.result.value = "Book not found"
        /\ (id \in DOMAIN books /\ id \notin DOMAIN book_publisher) =>
              last.result.value = "Publisher not available"
        /\ (id \in DOMAIN books /\ id \in DOMAIN book_publisher) =>
              /\ book_publisher[id] \in DOMAIN publishers
              /\ last.result.value = publishers[book_publisher[id]]

\* the publisher given to a book is gone when the function is called
C14_Witness ==
    /\ last.op = "publisher_name"
    /\ last.book_id \in DOMAIN books
    /\ last.result.value = "Publisher not available"
    /\ next_publisher_id > 1
    /\ publishers = <<>>

(***************************************************************************)
(* Properties of the reports of complex_queries.py                         *)
(***************************************************************************)
\* the documented top-level keys of the two reports
ProjectReportKeys ==
    {"project_name", "project_code", "department", "budget_info", "timeline",
     "team", "tasks", "documents"}

DepartmentAnalysisKeys ==
    {"department", "projects", "employees", "overall_metrics"}

\* a row of the table has the code
KnownCode(table, code) == \E k \in 1..Len(table) : table[k].code = code

\* C13: get_project_performance_report and analyze_department_performance
\* never raise; for a code no row has they log one error and return None, for
\* a code a row has they return a report with exactly the documented keys.
C13_UnknownKeyReturnsNone ==
    /\ (last.op = "project_report") =>
          /\ last.result.outcome = "returned"
          /\ last.result.is_none = ~KnownCode(org.projects, last.code)
          /\ Len(last.result.logged) = (IF last.result.is_none THEN 1 ELSE 0)
          /\ (~last.result.is_none) =>
                DOMAIN last.result.value = ProjectReportKeys
    /\ (last.op = "department_analysis") =>
          /\ last.result.outcome = "returned"
          /\ last.result.is_none = ~KnownCode(org.departments, last.code)
          /\ Len(last.result.logged) = (IF last.result.is_none THEN 1 ELSE 0)
          /\ (~last.result.is_none) =>
                DOMAIN last.result.value = DepartmentAnalysisKeys

\* a project code that no row has, looked up while another project exists
C13_Witness ==
    /\ last.op = "project_report"
    /\ last.result.is_none
    /\ Len(org.projects) > 0
    /\ Len(org.tasks) > 0

\* how many entries of the bucket are the task
EntriesOf(bucket, task) ==
    Cardinality({k \in 1..Len(bucket) : bucket[k].id = task})

\* C19: get_task_summary puts every task of the project, subtasks included,
\* into exactly one of the buckets TODO, IN_PROGRESS, REVIEW and DONE, the one
\* of its own status, and the bucket sizes sum to the number of tasks of the
\* project.
C19_TaskPartition ==
    (last.op = "task_summary") =>
        LET buckets == last.result.buckets
            mine == {t \in 1..Len(org.tasks) :
                        org.tasks[t].project = last.project}
        IN /\ ~last.result.raised
           /\ DOMAIN buckets = {"TODO", "IN_PROGRESS", "REVIEW", "DONE"}
           /\ \A key \in DOMAIN buckets :
                 /\ \A k \in 1..Len(buckets[key]) : buckets[key][k].id \in mine
                 /\ \A t \in mine :
                       EntriesOf(buckets[key], t)
                           = (IF org.tasks[t].status = key THEN 1 ELSE 0)
           /\ Len(buckets["TODO"]) + Len(buckets["IN_PROGRESS"])
                 + Len(buckets["REVIEW"]) + Len(buckets["DONE"])
                 = Cardinality(mine)

\* a task and its subtask, both of the project, in different buckets
C19_Witness ==
    /\ last.op = "task_summary"
    /\ \E t \in 1..Len(org.tasks) :
          /\ org.tasks[t].project = last.project
          /\ org.tasks[t].parent_task # 0
          /\ org.tasks[org.tasks[t].parent_task].project = last.project
          /\ org.tasks[org.tasks[t].parent_task].status # org.tasks[t].status
          /\ Len(last.result.buckets[org.tasks[t].status]) = 1

\* the application is not running
AppIdle ==
    /\ authors = <<>>
    /\ books = <<>>
    /\ next_author_id = 1
    /\ next_book_id = 1
    /\ cache = <<>>
    /\ now = 0
    /\ last = [op |-> "none"]
    /\ NoPublishers
    /\ org = NoOrg
    /\ requests = NoRequests

Init == MwInit /\ AppIdle

Next == MwNext

Spec == Init /\ [][Next]_vars

CacheInit == MwIdle /\ AppIdle

SpecCache == CacheInit /\ [][CacheNext]_vars

SpecView == CacheInit /\ [][ViewNext]_vars

SpecGrouping == Init /\ [][GroupingNext]_vars

ConcurrentInit ==
    /\ MwIdle
    /\ AppIdleTables
    /\ org = NoOrg
    /\ requests \in {[r \in RequestIds |->
                          NewRequest(r, has_toolbar[r], queries[r])] :
                         has_toolbar \in [RequestIds -> BOOLEAN],
                         queries \in [RequestIds -> RequestQueries]}

SpecConcurrent == ConcurrentInit /\ [][ConcurrentNext]_vars

SpecLocust == Init /\ [][LocustNext]_vars

SpecPublisher == CacheInit /\ [][PublisherNext]_vars

====
